---- MODULE Spec2Model ----
(***************************************************************************)
(* Multi-room tournament server (src/server.js) and its browser client     *)
(* (src/index.js, src/websocket-client.js).                                 *)
(*                                                                          *)
(* State: the tournaments Map, the per-socket fields the server keeps on    *)
(* each ws object, the wall clock read by Date.now(), and the envelopes the *)
(* last handler passed to ws.send().  One action per message handler.       *)
(***************************************************************************)
EXTENDS Integers, Sequences, FiniteSets, TLC

(******************************* bounds ***********************************)
NumConns == 2          \* sockets 1..NumConns
MaxTicks == 2          \* the clock advances at most MaxTicks times
TickMs == 1000         \* milliseconds the clock advances per Tick
MaxVersion == 3        \* mutating messages are enumerated while version < MaxVersion
MaxQueue == 2          \* capacity of each in-flight message queue (client model)
MaxEdits == 2          \* local edits each page makes (client model)
MaxConnVersion == 1    \* highest room version reached in the connection model

(**************************** value encodings *****************************)
\* JavaScript null, as stored in the scoring knobs and lastResults
\* (src/server.js:57-66); the model's numbers are all >= 0.
Null == 0 - 1
\* JavaScript undefined, the value of a property read from an object lacking it.
Undefined == Null - 1
\* The property key JavaScript uses for obj[undefined].
UndefinedKey == "undefined"
\* ws.tournamentHash = null (src/server.js:95); ws.timerId is undefined until
\* JOIN_TIMER.  Both are tested by truthiness only, like the empty string.
NoHash == ""
NoTimer == ""
\* An object with no own properties, {}.
EmptyObj == <<>>

Conns == 1..NumConns
Hashes == {"abc", "xyz"}
TimerIds == {"tournament", "round-1-table-1"}
Persons == {"person-1"}
Counts == {1}
Durations == {1, 2}                    \* seconds, as sent in TIMER_START
LockedKeys == {"groups", "ofSize", "forRounds"}

VARIABLES
  tournaments,   \* Map hash -> tournament object (src/server.js:27)
  ws,            \* per-socket fields: tournamentHash, timerId, readyState
  now,           \* the value Date.now() returns
  out,           \* envelopes handed to ws.send() by the last handler
  last,          \* the last event handled: its type, socket and outcome
  prevFull,      \* history: the latest FULL_STATE reply not yet followed by a mutation
  cli,           \* index.js page state of the client behind each socket
  c2s,           \* client -> server messages in flight, per socket (FIFO)
  s2c,           \* server -> client envelopes in flight, per socket (FIFO)
  serverState,   \* the state object of the single-room server (src/unnamed/part_001:280)
  clients,       \* the Set of sockets of the single-room server (src/unnamed/part_001:313)
  wsClient,      \* the WebSocketClient instance of each page (src/websocket-client.js:150)
  timerHistory,  \* history: per timer, whether it was started and the pause not yet followed by a command
  countdown      \* the CountdownServer instance (src/unnamed/part_000:205)

serverVars == <<tournaments, ws, now, out, last, prevFull>>
clientVars == <<cli, c2s, s2c>>
singleVars == <<serverState, clients>>
\* What the room server's handlers and the pages of the sync model leave alone.
otherVars == <<serverState, clients, wsClient, timerHistory, countdown>>
vars == <<tournaments, ws, now, out, last, prevFull, cli, c2s, s2c,
          serverState, clients, wsClient, timerHistory, countdown>>

(******************************* helpers **********************************)
Max(a, b) == IF a >= b THEN a ELSE b

\* obj[key] for a key that may be absent.
Get(obj, key) == IF key \in DOMAIN obj THEN obj[key] ELSE Undefined

Has(obj, key) == key \in DOMAIN obj

\* Object.assign(target, src): every own property of src is copied onto target.
ObjectAssign(target, src) ==
  [k \in (DOMAIN target) \cup (DOMAIN src) |->
     IF k \in DOMAIN src THEN src[k] ELSE target[k]]

\* const { a, b, ...rest } = obj
Rest(obj, keys) == [k \in (DOMAIN obj) \ keys |-> obj[k]]

\* obj[key] = value
SetKey(obj, key, value) ==
  [k \in (DOMAIN obj) \cup {key} |-> IF k = key THEN value ELSE obj[k]]

\* JSON.stringify of an object of numbers: properties whose value is undefined
\* are dropped.
JsonFlat(obj) == [k \in {j \in DOMAIN obj : obj[j] # Undefined} |-> obj[k]]

\* `Player ${i + 1}` for i = 0 .. n-1 (src/server.js:45)
DefaultPlayerNames(n) == [i \in 1..n |-> "Player " \o ToString(i)]

\* x ?? d for numbers: only undefined and null give the default.
OrDefaultNullish(x, d) == IF x = Undefined \/ x = Null THEN d ELSE x

\* x || d for numbers: 0 and undefined are falsy.
OrDefault(x, d) == IF x = 0 \/ x = Undefined \/ x = Null THEN d ELSE x

(**************************** POST /api/tournament ************************)
NewTournament(config) ==
  LET groups == OrDefault(Get(config, "groups"), 3)
      ofSize == OrDefault(Get(config, "ofSize"), 4)
  IN [ config |-> [ groups |-> groups,
                    ofSize |-> ofSize,
                    forRounds |-> OrDefault(Get(config, "forRounds"), 3),
                    playerNames |-> DefaultPlayerNames(groups * ofSize),
                    forbiddenPairs |-> <<>>,
                    discouragedGroups |-> <<>> ],
       lastResults |-> Null,
       textFieldRefs |-> EmptyObj,
       chomboRefs |-> EmptyObj,
       oka |-> Null, uma1 |-> Null, uma2 |-> Null, uma3 |-> Null, uma4 |-> Null,
       startingPoints |-> Null,
       chomboValue |-> Null,
       lastUpdated |-> now,
       version |-> 0,
       isEmpty |-> TRUE,
       locked |-> TRUE,
       clients |-> {},
       timers |-> EmptyObj ]

\* tournaments.set(hash, ...)
MapSet(map, key, value) ==
  [k \in (DOMAIN map) \cup {key} |-> IF k = key THEN value ELSE map[k]]

\* The handler without the tournaments.has(hash) test.
PostTournamentOverwrites(hash, hasConfig, config) ==
  /\ last' = [type |-> "POST", conn |-> 0, hash |-> hash, timerId |-> NoTimer,
              threw |-> FALSE, wasRunning |-> FALSE,
              status |-> IF hash = NoHash \/ ~hasConfig THEN 400 ELSE 200]
  /\ out' = {}
  /\ IF hash = NoHash \/ ~hasConfig
       THEN UNCHANGED tournaments
       ELSE tournaments' = MapSet(tournaments, hash, NewTournament(config))
  /\ UNCHANGED <<ws, now, prevFull>>

\* The request body carries hash and config, or lacks one of them.
PostTournament(hash, hasConfig, config) ==
  /\ last' = [type |-> "POST", conn |-> 0, hash |-> hash, timerId |-> NoTimer,
              threw |-> FALSE, wasRunning |-> FALSE,
              status |-> IF hash = NoHash \/ ~hasConfig THEN 400
                         ELSE IF hash \in DOMAIN tournaments THEN 409 ELSE 200]
  /\ out' = {}
  /\ IF hash = NoHash \/ ~hasConfig
       THEN UNCHANGED tournaments
       ELSE IF hash \in DOMAIN tournaments
         THEN UNCHANGED tournaments
         ELSE tournaments' = MapSet(tournaments, hash, NewTournament(config))
  /\ UNCHANGED <<ws, now, prevFull>>

(******************************* envelopes ********************************)
\* One ws.send(JSON.stringify(body)) to socket c.
Env(c, type, body) == [to |-> c, type |-> type, body |-> body]

\* The snapshot without the destructuring that leaves clients out.
FullStateWithClients(T) ==
  [T EXCEPT !.timers = EmptyObj,
            !.textFieldRefs = JsonFlat(@),
            !.chomboRefs = JsonFlat(@)]

\* const { clients, ...state } = tournament; JSON.stringify(state).
\* timers is a Map, which JSON.stringify renders as {}.
FullState(T) ==
  [Rest(T, {"clients"}) EXCEPT !.timers = EmptyObj,
                               !.textFieldRefs = JsonFlat(@),
                               !.chomboRefs = JsonFlat(@)]

IsOpen(c) == ws[c].readyState = "OPEN"

\* The broadcast without the readyState test.
BroadcastToTournamentAll(T, type, payload) ==
  { Env(c, type, [payload |-> payload, version |-> T.version, timestamp |-> now])
      : c \in T.clients }

\* broadcastToTournament (src/server.js:375-388)
BroadcastToTournament(T, type, payload) ==
  { Env(c, type, [payload |-> payload, version |-> T.version, timestamp |-> now])
      : c \in {d \in T.clients : IsOpen(d)} }

\* The broadcast that goes to the subscribers of every timer with this id, in
\* whatever room.
BroadcastToTimerById(timer, type, payload) ==
  { Env(c, type, [payload |-> SetKey(payload, "timerId", timer.timerId),
                  timestamp |-> now])
      : c \in { d \in Conns :
                  /\ IsOpen(d)
                  /\ \E h \in DOMAIN tournaments :
                       /\ timer.timerId \in DOMAIN tournaments[h].timers
                       /\ d \in tournaments[h].timers[timer.timerId].clients } }

\* broadcastToTimer (src/server.js:153-165)
BroadcastToTimer(timer, type, payload) ==
  { Env(c, type, [payload |-> SetKey(payload, "timerId", timer.timerId),
                  timestamp |-> now])
      : c \in {d \in timer.clients : IsOpen(d)} }

(***************************** socket state ********************************)
\* wss.on('connection'): a fresh socket (src/server.js:93-95)
NewSocket == [tournamentHash |-> NoHash, timerId |-> NoTimer, readyState |-> "OPEN"]

Bound(c) == ws[c].tournamentHash # NoHash

NoFull == [conn |-> 0, state |-> EmptyObj]

\* What the last step was: the message type, the socket, the room and timer it
\* named, whether the handler threw (caught by the try/catch around
\* handleClientMessage, src/server.js:98-103), and whether the timer it named
\* was running when the message arrived.
Event(type, c, h, t, threw, wasRunning) ==
  [type |-> type, conn |-> c, hash |-> h, timerId |-> t, threw |-> threw,
   wasRunning |-> wasRunning, status |-> 0]

MutatingTypes == {"UPDATE_TEXT_FIELD", "UPDATE_CHOMBO", "UPDATE_CONFIG",
                  "UPDATE_PLAYER_NAMES", "RECOMPUTE_TOURNAMENT", "UPDATE_RESULTS"}
TimerTypes == {"TIMER_START", "TIMER_PAUSE", "TIMER_RESUME", "TIMER_RESET"}
JoinTypes == {"JOIN_TOURNAMENT", "JOIN_TIMER"}

\* A message as parsed from the socket: data.type and data.payload, which may
\* be absent (undefined).
Msg(type, payload) == [type |-> type, hasPayload |-> TRUE, payload |-> payload]
BareMsg(type) == [type |-> type, hasPayload |-> FALSE, payload |-> EmptyObj]

\* A handler that throws before touching anything.
Throws(c, m) ==
  /\ last' = Event(m.type, c, ws[c].tournamentHash, NoTimer, TRUE, FALSE)
  /\ out' = {}
  /\ UNCHANGED <<tournaments, ws, now, prevFull>>

(**************************** JOIN_TOURNAMENT ******************************)
\* JOIN_TOURNAMENT with the binding written before the room lookup.
JoinTournamentBindsFirst(c, m) ==
  /\ m.type = "JOIN_TOURNAMENT"
  /\ IF ~m.hasPayload THEN Throws(c, m)
     ELSE LET hash == m.payload.hash IN
       IF hash \notin DOMAIN tournaments
       THEN /\ out' = {Env(c, "ERROR", [error |-> "Tournament not found"])}
            /\ last' = Event(m.type, c, hash, NoTimer, FALSE, FALSE)
            /\ ws' = [ws EXCEPT ![c].tournamentHash = hash]
            /\ UNCHANGED <<tournaments, now, prevFull>>
       ELSE LET T == [tournaments[hash] EXCEPT !.clients = @ \cup {c}] IN
            /\ ws' = [ws EXCEPT ![c].tournamentHash = hash]
            /\ tournaments' = [tournaments EXCEPT ![hash] = T]
            /\ out' = {Env(c, "FULL_STATE", [state |-> FullState(T)])}
            /\ last' = Event(m.type, c, hash, NoTimer, FALSE, FALSE)
            /\ UNCHANGED <<now, prevFull>>

\* src/server.js:172-195
JoinTournament(c, m) ==
  /\ m.type = "JOIN_TOURNAMENT"
  /\ IF ~m.hasPayload THEN Throws(c, m)
     ELSE LET hash == m.payload.hash IN
       IF hash \notin DOMAIN tournaments
       THEN /\ out' = {Env(c, "ERROR", [error |-> "Tournament not found"])}
            /\ last' = Event(m.type, c, hash, NoTimer, FALSE, FALSE)
            /\ UNCHANGED <<tournaments, ws, now, prevFull>>
       ELSE LET T == [tournaments[hash] EXCEPT !.clients = @ \cup {c}] IN
            /\ ws' = [ws EXCEPT ![c].tournamentHash = hash]
            /\ tournaments' = [tournaments EXCEPT ![hash] = T]
            /\ out' = {Env(c, "FULL_STATE", [state |-> FullState(T)])}
            /\ last' = Event(m.type, c, hash, NoTimer, FALSE, FALSE)
            /\ UNCHANGED <<now, prevFull>>

(******************************* JOIN_TIMER ********************************)
\* getOrCreateTimer (src/server.js:136-150): the timers Map after the call.
NewTimer(timerId) ==
  [timerId |-> timerId, isRunning |-> FALSE, startTime |-> 0, duration |-> 0,
   endTime |-> 0, pausedTime |-> 0, clients |-> {}]

GetOrCreateTimer(timers, timerId) ==
  IF timerId \in DOMAIN timers THEN timers ELSE MapSet(timers, timerId, NewTimer(timerId))

\* timeLeft without Math.max.
TimeLeftUnclamped(timer) ==
  IF timer.isRunning THEN timer.endTime - now ELSE timer.pausedTime

\* src/server.js:212-214
TimeLeft(timer) ==
  IF timer.isRunning THEN Max(0, timer.endTime - now) ELSE timer.pausedTime

\* src/server.js:198-228
JoinTimer(c, m) ==
  /\ m.type = "JOIN_TIMER"
  /\ IF ~m.hasPayload THEN Throws(c, m)
     ELSE LET hash == m.payload.hash
              timerId == m.payload.timerId IN
       IF hash \notin DOMAIN tournaments
       THEN /\ out' = {Env(c, "ERROR", [payload |-> [message |-> "Tournament not found"]])}
            /\ last' = Event(m.type, c, hash, timerId, FALSE, FALSE)
            /\ UNCHANGED <<tournaments, ws, now, prevFull>>
       ELSE LET timers == GetOrCreateTimer(tournaments[hash].timers, timerId)
                timer == [timers[timerId] EXCEPT !.clients = @ \cup {c}] IN
            /\ tournaments' = [tournaments EXCEPT
                                 ![hash].timers = [timers EXCEPT ![timerId] = timer]]
            /\ ws' = [ws EXCEPT ![c].tournamentHash = hash, ![c].timerId = timerId]
            /\ out' = {Env(c, "TIMER_SYNC",
                           [payload |-> [timerId |-> timerId,
                                         isRunning |-> timer.isRunning,
                                         endTime |-> timer.endTime,
                                         timeLeft |-> TimeLeft(timer),
                                         duration |-> timer.duration]])}
            /\ last' = Event(m.type, c, hash, timerId, FALSE, timer.isRunning)
            /\ UNCHANGED <<now, prevFull>>

(************************ messages before any join *************************)
\* The two guards in the other order: the room lookup answers first.
NotJoinedRoomFirst(c, m) ==
  /\ m.type \notin JoinTypes
  /\ \/ ~Bound(c)
     \/ ws[c].tournamentHash \notin DOMAIN tournaments
  /\ out' = {Env(c, "ERROR",
                 [error |-> IF ws[c].tournamentHash \notin DOMAIN tournaments
                            THEN "Tournament not found"
                            ELSE "Must join a tournament first"])}
  /\ last' = Event(m.type, c, NoHash, NoTimer, FALSE, FALSE)
  /\ UNCHANGED <<tournaments, ws, now, prevFull>>

\* src/server.js:230-246
NotJoined(c, m) ==
  /\ m.type \notin JoinTypes
  /\ \/ ~Bound(c)
     \/ ws[c].tournamentHash \notin DOMAIN tournaments
  /\ out' = {Env(c, "ERROR",
                 [error |-> IF ~Bound(c) THEN "Must join a tournament first"
                            ELSE "Tournament not found"])}
  /\ last' = Event(m.type, c, NoHash, NoTimer, FALSE, FALSE)
  /\ UNCHANGED <<tournaments, ws, now, prevFull>>

\* The switch of handleClientMessage is reached (src/server.js:239-248).
InRoom(c) == Bound(c) /\ ws[c].tournamentHash \in DOMAIN tournaments

\* tournament.lastUpdated = Date.now()  (src/server.js:371)
Touch(T) == [T EXCEPT !.lastUpdated = now]

\* The tail with a broadcast that leaves the sender out.
CommitToOthers(c, m, T, type, payload) ==
  LET h == ws[c].tournamentHash
      T1 == [T EXCEPT !.version = @ + 1, !.isEmpty = FALSE] IN
  /\ tournaments' = [tournaments EXCEPT ![h] = Touch(T1)]
  /\ out' = { e \in BroadcastToTournament(T1, type, payload) : e.to # c }
  /\ last' = Event(m.type, c, h, NoTimer, FALSE, FALSE)
  /\ prevFull' = NoFull
  /\ UNCHANGED <<ws, now>>

\* The common tail of the six mutating cases: version++, isEmpty = false,
\* broadcastToTournament, break, lastUpdated.
Commit(c, m, T, type, payload) ==
  LET h == ws[c].tournamentHash
      T1 == [T EXCEPT !.version = @ + 1, !.isEmpty = FALSE] IN
  /\ tournaments' = [tournaments EXCEPT ![h] = Touch(T1)]
  /\ out' = BroadcastToTournament(T1, type, payload)
  /\ last' = Event(m.type, c, h, NoTimer, FALSE, FALSE)
  /\ prevFull' = NoFull
  /\ UNCHANGED <<ws, now>>

(************************** the mutating cases *****************************)
\* case 'UPDATE_TEXT_FIELD' (src/server.js:249-254)
UpdateTextField(c, m) ==
  /\ m.type = "UPDATE_TEXT_FIELD" /\ InRoom(c)
  /\ IF ~m.hasPayload THEN Throws(c, m)
     ELSE LET T == tournaments[ws[c].tournamentHash]
              key == IF Has(m.payload, "fieldId") THEN m.payload.fieldId ELSE UndefinedKey
              T1 == [T EXCEPT !.textFieldRefs = SetKey(@, key, Get(m.payload, "value"))]
          IN Commit(c, m, T1, "TEXT_FIELD_UPDATED", m.payload)

\* case 'UPDATE_CHOMBO' (src/server.js:256-261)
UpdateChombo(c, m) ==
  /\ m.type = "UPDATE_CHOMBO" /\ InRoom(c)
  /\ IF ~m.hasPayload THEN Throws(c, m)
     ELSE LET T == tournaments[ws[c].tournamentHash]
              key == IF Has(m.payload, "person") THEN m.payload.person ELSE UndefinedKey
              T1 == [T EXCEPT !.chomboRefs = SetKey(@, key, Get(m.payload, "count"))]
          IN Commit(c, m, T1, "CHOMBO_UPDATED", m.payload)

\* UPDATE_CONFIG with Object.assign after version++ and isEmpty = false.
UpdateConfigAssignsLast(c, m) ==
  /\ m.type = "UPDATE_CONFIG" /\ InRoom(c)
  /\ IF ~m.hasPayload THEN Throws(c, m)
     ELSE LET h == ws[c].tournamentHash
              T == tournaments[h]
              T1 == ObjectAssign([T EXCEPT !.version = @ + 1, !.isEmpty = FALSE],
                                 Rest(m.payload, LockedKeys))
          IN /\ tournaments' = [tournaments EXCEPT ![h] = Touch(T1)]
             /\ out' = BroadcastToTournament(T1, "CONFIG_UPDATED", m.payload)
             /\ last' = Event(m.type, c, h, NoTimer, FALSE, FALSE)
             /\ prevFull' = NoFull
             /\ UNCHANGED <<ws, now>>

\* case 'UPDATE_CONFIG' (src/server.js:263-270)
UpdateConfig(c, m) ==
  /\ m.type = "UPDATE_CONFIG" /\ InRoom(c)
  /\ IF ~m.hasPayload THEN Throws(c, m)
     ELSE LET T == tournaments[ws[c].tournamentHash]
              allowedConfig == Rest(m.payload, LockedKeys)
              T1 == ObjectAssign(T, allowedConfig)
          IN Commit(c, m, T1, "CONFIG_UPDATED", m.payload)

\* case 'UPDATE_PLAYER_NAMES' (src/server.js:272-277)
UpdatePlayerNames(c, m) ==
  /\ m.type = "UPDATE_PLAYER_NAMES" /\ InRoom(c)
  /\ IF ~m.hasPayload THEN Throws(c, m)
     ELSE LET T == tournaments[ws[c].tournamentHash]
              T1 == [T EXCEPT !.config = SetKey(@, "playerNames", m.payload.playerNames)]
          IN Commit(c, m, T1, "PLAYER_NAMES_UPDATED", m.payload)

\* Object.assign(tournament.config, payload.config), as the single-room server
\* does (src/unnamed/part_001:383-385).
ApplyAll(config, src) == ObjectAssign(config, src)

\* if (x) tournament.config.x = x, for the three unlocked keys
\* (src/server.js:285-288).  The values of these keys in the payloads of the
\* model are arrays, which are truthy, the empty array included.
ApplyUnlocked(config, src) ==
  ObjectAssign(config,
               [k \in {"playerNames", "forbiddenPairs", "discouragedGroups"} \cap DOMAIN src
                  |-> src[k]])

\* case 'RECOMPUTE_TOURNAMENT' (src/server.js:279-293).  The three resets run
\* before payload.config is read, so a message without payload throws after them.
RecomputeTournament(c, m) ==
  /\ m.type = "RECOMPUTE_TOURNAMENT" /\ InRoom(c)
  /\ LET h == ws[c].tournamentHash
         T == [tournaments[h] EXCEPT !.lastResults = Null,
                                     !.textFieldRefs = EmptyObj,
                                     !.chomboRefs = EmptyObj] IN
     IF ~m.hasPayload
     THEN /\ tournaments' = [tournaments EXCEPT ![h] = T]
          /\ out' = {}
          /\ last' = Event(m.type, c, h, NoTimer, TRUE, FALSE)
          /\ UNCHANGED <<ws, now, prevFull>>
     ELSE LET T1 == IF Has(m.payload, "config")
                    THEN [T EXCEPT !.config = ApplyUnlocked(@, m.payload.config)]
                    ELSE T
          IN Commit(c, m, T1, "TOURNAMENT_RECOMPUTED", m.payload)

\* case 'UPDATE_RESULTS' (src/server.js:295-300)
UpdateResults(c, m) ==
  /\ m.type = "UPDATE_RESULTS" /\ InRoom(c)
  /\ IF ~m.hasPayload THEN Throws(c, m)
     ELSE LET T == tournaments[ws[c].tournamentHash]
              T1 == [T EXCEPT !.lastResults = m.payload.results]
          IN Commit(c, m, T1, "RESULTS_UPDATED", m.payload)

(***************************** REQUEST_FULL_STATE **************************)
\* case 'REQUEST_FULL_STATE' (src/server.js:302-308), then line 371.
RequestFullState(c, m) ==
  /\ m.type = "REQUEST_FULL_STATE" /\ InRoom(c)
  /\ LET h == ws[c].tournamentHash
         state == FullState(tournaments[h]) IN
     /\ out' = {Env(c, "FULL_STATE", [state |-> state])}
     /\ tournaments' = [tournaments EXCEPT ![h] = Touch(@)]
     /\ last' = Event(m.type, c, h, NoTimer, FALSE, FALSE)
     /\ prevFull' = [conn |-> c, state |-> state]
     /\ UNCHANGED <<ws, now>>

\* default: console.warn, then line 371.
KnownTypes == JoinTypes \cup MutatingTypes \cup TimerTypes \cup {"REQUEST_FULL_STATE"}

\* A default case that answers the caller with an ERROR.
UnknownTypeAnswered(c, m) ==
  /\ m.type \notin KnownTypes /\ InRoom(c)
  /\ LET h == ws[c].tournamentHash IN
     /\ tournaments' = [tournaments EXCEPT ![h] = Touch(@)]
     /\ out' = {Env(c, "ERROR", [error |-> "Unknown message type"])}
     /\ last' = Event(m.type, c, h, NoTimer, FALSE, FALSE)
     /\ UNCHANGED <<ws, now, prevFull>>

UnknownType(c, m) ==
  /\ m.type \notin KnownTypes /\ InRoom(c)
  /\ LET h == ws[c].tournamentHash IN
     /\ tournaments' = [tournaments EXCEPT ![h] = Touch(@)]
     /\ out' = {}
     /\ last' = Event(m.type, c, h, NoTimer, FALSE, FALSE)
     /\ UNCHANGED <<ws, now, prevFull>>

(****************************** timer cases ********************************)
TimerRunning(h, timerId) ==
  /\ h \in DOMAIN tournaments
  /\ timerId \in DOMAIN tournaments[h].timers
  /\ tournaments[h].timers[timerId].isRunning

\* The tail shared by the timer cases: the timers Map is written back, the
\* envelopes go out, break, lastUpdated (src/server.js:371).
TimerCommit(c, m, timerId, timers, sent) ==
  LET h == ws[c].tournamentHash IN
  /\ tournaments' = [tournaments EXCEPT ![h] = Touch([@ EXCEPT !.timers = timers])]
  /\ out' = sent
  /\ last' = Event(m.type, c, h, timerId, FALSE, TimerRunning(h, timerId))
  /\ UNCHANGED <<ws, now, prevFull>>

\* The timer object after case 'TIMER_START' (src/server.js:313-318)
StartedTimer(timer, duration) ==
  [timer EXCEPT !.isRunning = TRUE,
                !.startTime = now,
                !.duration = duration * 1000,
                !.endTime = now + duration * 1000,
                !.pausedTime = 0]

\* case 'TIMER_START' (src/server.js:310-323)
TimerStart(c, m) ==
  /\ m.type = "TIMER_START" /\ InRoom(c)
  /\ IF ~m.hasPayload THEN Throws(c, m)
     ELSE LET timerId == m.payload.timerId
              timers == GetOrCreateTimer(tournaments[ws[c].tournamentHash].timers, timerId)
              timer == StartedTimer(timers[timerId], m.payload.duration)
          IN TimerCommit(c, m, timerId, [timers EXCEPT ![timerId] = timer],
                         BroadcastToTimer(timer, "TIMER_STARTED", [endTime |-> timer.endTime]))

\* The pause without the clamp at 0.
PausedTimerUnclamped(timer) ==
  [timer EXCEPT !.isRunning = FALSE, !.pausedTime = timer.endTime - now]

\* The timer object after case 'TIMER_PAUSE' (src/server.js:329-330)
PausedTimer(timer) ==
  [timer EXCEPT !.isRunning = FALSE, !.pausedTime = Max(0, timer.endTime - now)]

\* case 'TIMER_PAUSE' (src/server.js:325-336)
TimerPause(c, m) ==
  /\ m.type = "TIMER_PAUSE" /\ InRoom(c)
  /\ IF ~m.hasPayload THEN Throws(c, m)
     ELSE LET timerId == m.payload.timerId
              timers == tournaments[ws[c].tournamentHash].timers IN
       IF timerId \in DOMAIN timers /\ timers[timerId].isRunning
       THEN LET timer == PausedTimer(timers[timerId]) IN
            TimerCommit(c, m, timerId, [timers EXCEPT ![timerId] = timer],
                        BroadcastToTimer(timer, "TIMER_PAUSED", [timeLeft |-> timer.pausedTime]))
       ELSE TimerCommit(c, m, timerId, timers, {})

\* The resume guard without the pausedTime test.
CanResumeStopped(timers, timerId) ==
  /\ timerId \in DOMAIN timers
  /\ ~timers[timerId].isRunning

\* if (timer && !timer.isRunning && timer.pausedTime > 0)  (src/server.js:341)
CanResume(timers, timerId) ==
  /\ timerId \in DOMAIN timers
  /\ ~timers[timerId].isRunning
  /\ timers[timerId].pausedTime > 0

\* The resume of the standalone countdown server (src/unnamed/part_000:121-123),
\* which leaves pausedTime as it was.
ResumedTimerKeepsPaused(timer) ==
  [timer EXCEPT !.isRunning = TRUE, !.endTime = now + timer.pausedTime]

\* The timer object after case 'TIMER_RESUME' (src/server.js:342-344)
ResumedTimer(timer) ==
  [timer EXCEPT !.isRunning = TRUE, !.endTime = now + timer.pausedTime, !.pausedTime = 0]

\* case 'TIMER_RESUME' (src/server.js:338-350)
TimerResume(c, m) ==
  /\ m.type = "TIMER_RESUME" /\ InRoom(c)
  /\ IF ~m.hasPayload THEN Throws(c, m)
     ELSE LET timerId == m.payload.timerId
              timers == tournaments[ws[c].tournamentHash].timers IN
       IF CanResume(timers, timerId)
       THEN LET timer == ResumedTimer(timers[timerId]) IN
            TimerCommit(c, m, timerId, [timers EXCEPT ![timerId] = timer],
                        BroadcastToTimer(timer, "TIMER_STARTED", [endTime |-> timer.endTime]))
       ELSE TimerCommit(c, m, timerId, timers, {})

\* The reset that leaves endTime as it was.
ResetTimerKeepsEnd(timer) ==
  [timer EXCEPT !.isRunning = FALSE, !.startTime = 0, !.pausedTime = 0]

\* The timer object after case 'TIMER_RESET' (src/server.js:356-359)
ResetTimer(timer) ==
  [timer EXCEPT !.isRunning = FALSE, !.startTime = 0, !.endTime = 0, !.pausedTime = 0]

\* case 'TIMER_RESET' (src/server.js:352-365)
TimerReset(c, m) ==
  /\ m.type = "TIMER_RESET" /\ InRoom(c)
  /\ IF ~m.hasPayload THEN Throws(c, m)
     ELSE LET timerId == m.payload.timerId
              timers == tournaments[ws[c].tournamentHash].timers IN
       IF timerId \in DOMAIN timers
       THEN LET timer == ResetTimer(timers[timerId]) IN
            TimerCommit(c, m, timerId, [timers EXCEPT ![timerId] = timer],
                        BroadcastToTimer(timer, "TIMER_RESET", EmptyObj))
       ELSE TimerCommit(c, m, timerId, timers, {})

(*************************** handleClientMessage ***************************)
\* ws.on('message') -> handleClientMessage(ws, data)  (src/server.js:97-104, 168-372)
HandleClientMessage(c, m) ==
  \/ JoinTournament(c, m)
  \/ JoinTimer(c, m)
  \/ NotJoined(c, m)
  \/ UpdateTextField(c, m)
  \/ UpdateChombo(c, m)
  \/ UpdateConfig(c, m)
  \/ UpdatePlayerNames(c, m)
  \/ RecomputeTournament(c, m)
  \/ UpdateResults(c, m)
  \/ RequestFullState(c, m)
  \/ TimerStart(c, m)
  \/ TimerPause(c, m)
  \/ TimerResume(c, m)
  \/ TimerReset(c, m)
  \/ UnknownType(c, m)

(********************************* clock ***********************************)
\* Time passes between two events; Date.now() never goes back.
Tick ==
  /\ now < MaxTicks * TickMs
  /\ now' = now + TickMs
  /\ out' = {}
  /\ last' = Event("TICK", 0, NoHash, NoTimer, FALSE, FALSE)
  /\ UNCHANGED <<tournaments, ws, prevFull>>

(************************** inputs of the room model ***********************)
\* The config in the body of POST /api/tournament.
Configs == { [groups |-> 2, ofSize |-> 2, forRounds |-> 1] }

TextPayloads ==
  { [fieldId |-> f, value |-> v] : f \in {"round-0-table-0-person-1"}, v \in {25000} }
    \cup { EmptyObj }

ChomboPayloads == { [person |-> p, count |-> n] : p \in Persons, n \in Counts }

\* What index.js sends (src/index.js:138-146, 492, 516), and objects with other keys.
ConfigPayloads ==
  { [oka |-> 20, uma1 |-> 15, uma2 |-> 5, uma3 |-> 5, uma4 |-> 15,
     startingPoints |-> 30000, chomboValue |-> 20],
    [groups |-> 9, ofSize |-> 9, forRounds |-> 9],
    [version |-> 0],
    [config |-> [groups |-> 9, ofSize |-> 9, forRounds |-> 9]] }

NewNames == <<"Ann", "Bob", "Cy", "Di">>

PlayerNamesPayloads == { [playerNames |-> NewNames] }

\* src/index.js:267-269, and a payload without config.
RecomputePayloads ==
  { [config |-> [groups |-> 9, ofSize |-> 9, forRounds |-> 9, withGroupLeaders |-> FALSE,
                 playerNames |-> NewNames, forbiddenPairs |-> <<>>,
                 discouragedGroups |-> <<>>]],
    EmptyObj }

ResultsPayloads == { [results |-> 1] }

PayloadsOf(type) ==
  CASE type = "UPDATE_TEXT_FIELD" -> TextPayloads
    [] type = "UPDATE_CHOMBO" -> ChomboPayloads
    [] type = "UPDATE_CONFIG" -> ConfigPayloads
    [] type = "UPDATE_PLAYER_NAMES" -> PlayerNamesPayloads
    [] type = "RECOMPUTE_TOURNAMENT" -> RecomputePayloads
    [] type = "UPDATE_RESULTS" -> ResultsPayloads
    [] OTHER -> { EmptyObj }

\* Every message of a type: with each payload, and with none.
MsgsOf(type) == { Msg(type, p) : p \in PayloadsOf(type) } \cup { BareMsg(type) }

JoinMsgs == { Msg("JOIN_TOURNAMENT", [hash |-> h]) : h \in Hashes }

\* The version a socket's room has, 0 when it has none.
VersionOf(c) == IF InRoom(c) THEN tournaments[ws[c].tournamentHash].version ELSE 0

(************************* single-room server ******************************)
\* let serverState = { ... }  (src/unnamed/part_001:280-310)
NewServerState ==
  [groups |-> 3, ofSize |-> 4, forRounds |-> 3, withGroupLeaders |-> FALSE,
   playerNames |-> <<>>, forbiddenPairs |-> <<>>, discouragedGroups |-> <<>>,
   lastResults |-> Null, textFieldRefs |-> EmptyObj, chomboRefs |-> EmptyObj,
   oka |-> Null, uma1 |-> Null, uma2 |-> Null, uma3 |-> Null, uma4 |-> Null,
   startingPoints |-> Null, chomboValue |-> Null,
   lastUpdated |-> 0, version |-> 0, isEmpty |-> TRUE]

\* broadcastStateChange (src/unnamed/part_001:429-442); the version is read
\* from the state object S at the time of the call.
BroadcastStateChange(S, type, payload) ==
  { Env(c, type, [payload |-> payload, version |-> S.version, timestamp |-> now])
      : c \in {d \in clients : IsOpen(d)} }

\* wss.on('connection') (src/unnamed/part_001:316-324): the socket is added
\* and is sent the full state.
SingleConnection(c) ==
  /\ IsOpen(c) /\ c \notin clients
  /\ clients' = clients \cup {c}
  /\ out' = {Env(c, "FULL_STATE", [state |-> serverState])}
  /\ last' = Event("connection", c, NoHash, NoTimer, FALSE, FALSE)
  /\ UNCHANGED serverState

\* ws.on('close') (src/unnamed/part_001:335-338)
SingleOnClose(c) ==
  /\ ws[c].readyState = "CLOSING"
  /\ ws' = [ws EXCEPT ![c].readyState = "CLOSED"]
  /\ clients' = clients \ {c}
  /\ out' = {}
  /\ last' = Event("close", c, NoHash, NoTimer, FALSE, FALSE)
  /\ UNCHANGED serverState

\* A handler that throws: the catch of ws.on('message') logs it
\* (src/unnamed/part_001:326-333) and line 425 is not reached.  S is the state
\* as the handler left it.
SingleThrows(c, m, S) ==
  /\ serverState' = S
  /\ out' = {}
  /\ last' = Event(m.type, c, NoHash, NoTimer, TRUE, FALSE)
  /\ UNCHANGED clients

\* The tail of a case that does not throw: the envelopes go out, break,
\* serverState.lastUpdated = Date.now()  (src/unnamed/part_001:425)
SingleDone(c, m, S, sent) ==
  /\ serverState' = SetKey(S, "lastUpdated", now)
  /\ out' = sent
  /\ last' = Event(m.type, c, NoHash, NoTimer, FALSE, FALSE)
  /\ UNCHANGED clients

\* serverState.version++; serverState.isEmpty = false; broadcastStateChange(...)
SingleCommit(c, m, S, type) ==
  LET S1 == [S EXCEPT !.version = @ + 1, !.isEmpty = FALSE] IN
  SingleDone(c, m, S1, BroadcastStateChange(S1, type, m.payload))

\* case 'UPDATE_TEXT_FIELD' (src/unnamed/part_001:351-356); the write throws
\* when the state object has no textFieldRefs.
SingleUpdateTextField(c, m) ==
  /\ m.type = "UPDATE_TEXT_FIELD"
  /\ IF ~m.hasPayload \/ ~Has(serverState, "textFieldRefs")
     THEN SingleThrows(c, m, serverState)
     ELSE SingleCommit(c, m,
            [serverState EXCEPT !.textFieldRefs =
               SetKey(@, m.payload.fieldId, m.payload.value)],
            "TEXT_FIELD_UPDATED")

\* case 'UPDATE_CHOMBO' (src/unnamed/part_001:358-363)
SingleUpdateChombo(c, m) ==
  /\ m.type = "UPDATE_CHOMBO"
  /\ IF ~m.hasPayload \/ ~Has(serverState, "chomboRefs")
     THEN SingleThrows(c, m, serverState)
     ELSE SingleCommit(c, m,
            [serverState EXCEPT !.chomboRefs =
               SetKey(@, m.payload.person, m.payload.count)],
            "CHOMBO_UPDATED")

\* case 'UPDATE_CONFIG' (src/unnamed/part_001:365-370): Object.assign of the
\* whole payload; of an undefined payload it copies nothing.
SingleUpdateConfig(c, m) ==
  /\ m.type = "UPDATE_CONFIG"
  /\ SingleCommit(c, m, ObjectAssign(serverState, m.payload), "CONFIG_UPDATED")

\* case 'UPDATE_PLAYER_NAMES' (src/unnamed/part_001:372-377)
SingleUpdatePlayerNames(c, m) ==
  /\ m.type = "UPDATE_PLAYER_NAMES"
  /\ IF ~m.hasPayload THEN SingleThrows(c, m, serverState)
     ELSE SingleCommit(c, m,
            SetKey(serverState, "playerNames", Get(m.payload, "playerNames")),
            "PLAYER_NAMES_UPDATED")

\* case 'RECOMPUTE_TOURNAMENT' (src/unnamed/part_001:379-389): the resets run
\* before payload.config is read.
SingleRecomputeTournament(c, m) ==
  /\ m.type = "RECOMPUTE_TOURNAMENT"
  /\ LET S == SetKey(SetKey(SetKey(serverState, "lastResults", Null),
                            "textFieldRefs", EmptyObj), "chomboRefs", EmptyObj) IN
     IF ~m.hasPayload THEN SingleThrows(c, m, S)
     ELSE SingleCommit(c, m,
            IF Has(m.payload, "config") THEN ObjectAssign(S, m.payload.config) ELSE S,
            "TOURNAMENT_RECOMPUTED")

\* case 'UPDATE_RESULTS' (src/unnamed/part_001:391-396)
SingleUpdateResults(c, m) ==
  /\ m.type = "UPDATE_RESULTS"
  /\ IF ~m.hasPayload THEN SingleThrows(c, m, serverState)
     ELSE SingleCommit(c, m,
            SetKey(serverState, "lastResults", Get(m.payload, "results")),
            "RESULTS_UPDATED")

\* case 'REQUEST_FULL_STATE' (src/unnamed/part_001:398-403)
SingleRequestFullState(c, m) ==
  /\ m.type = "REQUEST_FULL_STATE"
  /\ SingleDone(c, m, serverState, {Env(c, "FULL_STATE", [state |-> serverState])})

\* The object literal with the snapshot spread after the three fields.
RestoredSnapshotLast(S, snapshot) ==
  ObjectAssign([version |-> S.version + 1, lastUpdated |-> now, isEmpty |-> FALSE],
               snapshot)

\* { ...payload.state, version: serverState.version + 1, lastUpdated: Date.now(),
\*   isEmpty: false }  (src/unnamed/part_001:409-414); the spread of undefined
\* adds no property.
Restored(S, snapshot) ==
  ObjectAssign(snapshot,
               [version |-> S.version + 1, lastUpdated |-> now, isEmpty |-> FALSE])

\* case 'RESTORE_FROM_LOCALSTORAGE' (src/unnamed/part_001:405-419): payload.state
\* is read only when the state is empty, so a message without payload throws
\* only then.
RestoreFromLocalStorage(c, m) ==
  /\ m.type = "RESTORE_FROM_LOCALSTORAGE"
  /\ IF serverState.isEmpty
     THEN IF ~m.hasPayload THEN SingleThrows(c, m, serverState)
          ELSE LET S1 == Restored(serverState,
                                  IF Has(m.payload, "state") THEN m.payload.state
                                  ELSE EmptyObj)
               IN SingleDone(c, m, S1, BroadcastStateChange(S1, "FULL_STATE", [state |-> S1]))
     ELSE SingleDone(c, m, serverState, {})

\* default: console.warn (src/unnamed/part_001:421-422)
SingleUnknownType(c, m) ==
  /\ m.type \notin MutatingTypes \cup {"REQUEST_FULL_STATE", "RESTORE_FROM_LOCALSTORAGE"}
  /\ SingleDone(c, m, serverState, {})

(***************************** WebSocketClient *****************************)
\* this.maxReconnectAttempts, this.reconnectDelay (src/websocket-client.js:6-7)
maxReconnectAttempts == 10
reconnectDelay == 1000

\* Math.pow(2, n) for n >= 0
MathPow2(n) == 2 ^ n

\* this.tournamentHash when it is null, and when connect was called with no
\* argument (undefined).
NullHash == "<null>"
UndefinedHash == "<undefined>"

\* No setTimeout callback is pending.
NoTimeout == 0

\* The constructor (src/websocket-client.js:3-11).  readyState is that of
\* this.ws ("NONE" while this.ws is null), timeout the delay of the pending
\* setTimeout callback of attemptReconnect, sent the messages handed to the
\* current socket, and joined the room of the last JOIN_TOURNAMENT sent;
\* connectionLost says that showReconnectError has run.
NewWebSocketClient ==
  [readyState |-> "NONE", reconnectAttempts |-> 0, isReconnecting |-> FALSE,
   tournamentHash |-> NullHash, timeout |-> NoTimeout, sent |-> <<>>,
   joined |-> NoHash, connectionLost |-> FALSE]

\* connect(tournamentHash) up to new WebSocket(wsUrl)  (src/websocket-client.js:13-18)
Connect(client, tournamentHash) ==
  [client EXCEPT !.tournamentHash = tournamentHash,
                 !.readyState = "CONNECTING",
                 !.sent = <<>>]

\* if (this.tournamentHash): null, undefined and "" are falsy.
Truthy(hash) == hash \notin {NullHash, UndefinedHash, NoHash}

\* ws.onopen (src/websocket-client.js:20-30)
OnOpen(client) ==
  LET opened == [client EXCEPT !.readyState = "OPEN",
                               !.reconnectAttempts = 0,
                               !.isReconnecting = FALSE] IN
  IF Truthy(client.tournamentHash)
  THEN [opened EXCEPT !.sent = Append(@, Msg("JOIN_TOURNAMENT",
                                             [hash |-> client.tournamentHash])),
                      !.joined = client.tournamentHash]
  ELSE opened

\* attemptReconnect (src/websocket-client.js:73-90)
AttemptReconnect(client) ==
  IF client.isReconnecting THEN client
  ELSE IF client.reconnectAttempts < maxReconnectAttempts
  THEN [client EXCEPT !.isReconnecting = TRUE,
                      !.reconnectAttempts = @ + 1,
                      !.timeout = reconnectDelay * MathPow2(client.reconnectAttempts)]
  ELSE [client EXCEPT !.connectionLost = TRUE]

\* ws.onclose (src/websocket-client.js:41-45)
WsOnClose(client) == AttemptReconnect([client EXCEPT !.readyState = "CLOSED"])

\* The callback of setTimeout in attemptReconnect: this.connect(), with no
\* argument (src/websocket-client.js:83-85)
OnTimeout(client) == Connect([client EXCEPT !.timeout = NoTimeout], UndefinedHash)

\* A step of the page behind socket c: the server is not involved.
PageStep(c, client, type) ==
  /\ wsClient' = [wsClient EXCEPT ![c] = client]
  /\ out' = {}
  /\ last' = Event(type, c, NoHash, NoTimer, FALSE, FALSE)
  /\ UNCHANGED <<tournaments, ws, now, prevFull, clientVars, singleVars, timerHistory, countdown>>

\* The page calls wsClient.connect: with the id of its tournament, or with no
\* argument as src/index.js:478 does.
PageConnect ==
  \E c \in Conns, hash \in Hashes \cup {UndefinedHash} :
    /\ wsClient[c].readyState = "NONE"
    /\ PageStep(c, Connect(wsClient[c], hash), "connect")

\* The socket opens.
Opens ==
  \E c \in Conns :
    /\ wsClient[c].readyState = "CONNECTING"
    /\ PageStep(c, OnOpen(wsClient[c]), "onopen")

\* The transport closes, or the connection attempt fails: the close event fires.
Closes ==
  \E c \in Conns :
    /\ wsClient[c].readyState \in {"CONNECTING", "OPEN"}
    /\ PageStep(c, WsOnClose(wsClient[c]), "onclose")

\* The delay of the pending setTimeout has passed.
TimeoutFires ==
  \E c \in Conns :
    /\ wsClient[c].timeout # NoTimeout
    /\ PageStep(c, OnTimeout(wsClient[c]), "timeout")

(****************************** timer history ******************************)
\* No pause is remembered.
NoPause == [t1 |-> Null, endTime |-> Null]

NewTimerHistory == [started |-> FALSE, pause |-> NoPause]

\* The history of the timer named by the timer command just handled (read
\* from last' and the timer as it was): TIMER_START marks it started,
\* TIMER_RESET makes it fresh, a TIMER_PAUSE that found it running remembers
\* the time of the pause and the endTime it had, and every other command
\* forgets the pause.
RecordTimerHistory ==
  timerHistory' =
    IF last'.type \in TimerTypes /\ ~last'.threw
    THEN [timerHistory EXCEPT ![<<last'.hash, last'.timerId>>] =
            IF last'.type = "TIMER_START" THEN [started |-> TRUE, pause |-> NoPause]
            ELSE IF last'.type = "TIMER_RESET" THEN NewTimerHistory
            ELSE IF last'.type = "TIMER_PAUSE" /\ last'.wasRunning
                 THEN [@ EXCEPT !.pause =
                         [t1 |-> now,
                          endTime |-> tournaments[last'.hash].timers[last'.timerId].endTime]]
                 ELSE [@ EXCEPT !.pause = NoPause]]
    ELSE timerHistory

(**************************** CountdownServer ******************************)
\* Math.ceil(ms / 1000)
CeilSeconds(ms) == (ms + 999) \div 1000

\* new CountdownServer() (src/unnamed/part_000:7-25).  timerInterval is whether
\* an interval is set; closing holds the clients whose readyState is no longer
\* OPEN.  History: said is the type handed to broadcast() by the last step,
\* finished whether timer_finished was broadcast and no start or reset has
\* acted since, finishes the timer_finished broadcasts since the last
\* timer_started.
NewCountdown ==
  [timerState |-> [isRunning |-> FALSE, startTime |-> 0, duration |-> 0,
                   endTime |-> 0, pausedTime |-> 0],
   clients |-> {}, closing |-> {}, timerInterval |-> FALSE,
   said |-> "", finished |-> FALSE, finishes |-> 0]

\* broadcast(message) (src/unnamed/part_000:189-196)
CountdownBroadcast(S, message) ==
  { Env(c, message.type, message) : c \in S.clients \ S.closing }

\* sendTimerSync(ws) (src/unnamed/part_000:171-187)
SendTimerSync(S, c) ==
  LET t == S.timerState
      timeLeft == IF t.isRunning THEN Max(0, CeilSeconds(t.endTime - now))
                  ELSE IF t.pausedTime > 0 THEN CeilSeconds(t.pausedTime)
                  ELSE 0
  IN Env(c, "timer_sync",
         [type |-> "timer_sync", isRunning |-> t.isRunning, endTime |-> t.endTime,
          timeLeft |-> timeLeft])

\* The end of a step of the CountdownServer: S is the server after the step,
\* said the type it broadcast ("" for none) and sent the envelopes handed to
\* ws.send().
CountdownDone(c, type, S, said, sent) ==
  /\ countdown' =
       [S EXCEPT !.said = said,
                 !.finished = IF said = "timer_finished" THEN TRUE
                              ELSE IF said = "timer_reset" \/ (type = "start" /\ said # "")
                                   THEN FALSE ELSE @,
                 !.finishes = IF said = "timer_started" THEN 0
                              ELSE IF said = "timer_finished" THEN IF @ < 2 THEN @ + 1 ELSE @
                              ELSE @]
  /\ out' = sent
  /\ last' = Event(type, c, NoHash, NoTimer, FALSE, countdown.timerState.isRunning)
  /\ UNCHANGED <<tournaments, ws, now, prevFull, clientVars, serverState, clients,
                 wsClient, timerHistory>>

\* wss.on('connection') (src/unnamed/part_000:36-40)
CountdownConnection(c) ==
  /\ c \notin countdown.clients
  /\ LET S == [countdown EXCEPT !.clients = @ \cup {c}] IN
       CountdownDone(c, "connection", S, "", {SendTimerSync(S, c)})

\* The transport of client c closes: readyState leaves OPEN, and then
\* ws.on('close') runs (src/unnamed/part_000:51-54).
CountdownOnClose(c) ==
  /\ c \in countdown.clients
  /\ IF c \in countdown.closing
     THEN CountdownDone(c, "close",
                        [countdown EXCEPT !.clients = @ \ {c}, !.closing = @ \ {c}], "", {})
     ELSE CountdownDone(c, "closing", [countdown EXCEPT !.closing = @ \cup {c}], "", {})

\* case 'time_sync' (src/unnamed/part_000:65-71)
TimeSync(c, clientTime) ==
  CountdownDone(c, "time_sync", countdown, "",
                {Env(c, "time_sync_response",
                     [type |-> "time_sync_response", serverTime |-> now,
                      clientTime |-> clientTime])})

\* startTimer(duration) (src/unnamed/part_000:87-102)
StartTimer(c, duration) ==
  IF countdown.timerState.isRunning THEN CountdownDone(c, "start", countdown, "", {})
  ELSE LET S == [countdown EXCEPT
                   !.timerState = [isRunning |-> TRUE, startTime |-> now,
                                   duration |-> duration * 1000,
                                   endTime |-> now + duration * 1000,
                                   pausedTime |-> 0],
                   !.timerInterval = TRUE]
       IN CountdownDone(c, "start", S, "timer_started",
                        CountdownBroadcast(S, [type |-> "timer_started",
                                               endTime |-> S.timerState.endTime]))

\* pauseTimer() (src/unnamed/part_000:104-116)
PauseTimer(c) ==
  IF ~countdown.timerState.isRunning THEN CountdownDone(c, "pause", countdown, "", {})
  ELSE LET S == [countdown EXCEPT
                   !.timerState.isRunning = FALSE,
                   !.timerState.pausedTime = Max(0, countdown.timerState.endTime - now),
                   !.timerInterval = FALSE]
       IN CountdownDone(c, "pause", S, "timer_paused",
                        CountdownBroadcast(S, [type |-> "timer_paused",
                                               timeLeft |-> CeilSeconds(S.timerState.pausedTime)]))

\* resumeTimer() (src/unnamed/part_000:118-131)
ResumeTimer(c) ==
  IF countdown.timerState.isRunning \/ countdown.timerState.pausedTime <= 0
  THEN CountdownDone(c, "resume", countdown, "", {})
  ELSE LET S == [countdown EXCEPT
                   !.timerState.isRunning = TRUE,
                   !.timerState.startTime = now,
                   !.timerState.endTime = now + countdown.timerState.pausedTime,
                   !.timerInterval = TRUE]
       IN CountdownDone(c, "resume", S, "timer_started",
                        CountdownBroadcast(S, [type |-> "timer_started",
                                               endTime |-> S.timerState.endTime]))

\* resetTimer() (src/unnamed/part_000:133-145)
CountdownResetTimer(c) ==
  LET S == [countdown EXCEPT
              !.timerState = [isRunning |-> FALSE, startTime |-> 0, duration |-> 0,
                              endTime |-> 0, pausedTime |-> 0],
              !.timerInterval = FALSE]
  IN CountdownDone(c, "reset", S, "timer_reset",
                   CountdownBroadcast(S, [type |-> "timer_reset"]))

\* The interval callback without the comparison with endTime.
TimerCheckEarly ==
  /\ countdown.timerInterval
  /\ IF ~countdown.timerState.isRunning
     THEN CountdownDone(0, "check", countdown, "", {})
     ELSE LET S == [countdown EXCEPT !.timerState.isRunning = FALSE,
                                     !.timerInterval = FALSE]
          IN CountdownDone(0, "check", S, "timer_finished",
                           CountdownBroadcast(S, [type |-> "timer_finished"]))

\* The callback of the interval set by startTimerCheck, run while the interval
\* is set (src/unnamed/part_000:147-169).
TimerCheck ==
  /\ countdown.timerInterval
  /\ IF ~countdown.timerState.isRunning \/ now < countdown.timerState.endTime
     THEN CountdownDone(0, "check", countdown, "", {})
     ELSE LET S == [countdown EXCEPT !.timerState.isRunning = FALSE,
                                     !.timerInterval = FALSE]
          IN CountdownDone(0, "check", S, "timer_finished",
                           CountdownBroadcast(S, [type |-> "timer_finished"]))

(****************************** room model *********************************)
NoEvent == Event("INIT", 0, NoHash, NoTimer, FALSE, FALSE)

ServerInit ==
  /\ tournaments = EmptyObj
  /\ ws = [c \in Conns |-> NewSocket]
  /\ now = 0
  /\ out = {}
  /\ last = NoEvent
  /\ prevFull = NoFull

\* A page that has loaded index.js and websocket-client.js and not yet opened
\* its socket (src/index.js:45, 71-72; src/websocket-client.js:3-11).
NewPage ==
  [sock |-> "NEW", textFieldRefs |-> EmptyObj, isSyncingFromServer |-> FALSE,
   hasReceivedInitialState |-> FALSE, edits |-> 0, editedUnjoined |-> FALSE]

ClientIdle ==
  /\ cli = [c \in Conns |-> NewPage]
  /\ c2s = [c \in Conns |-> <<>>]
  /\ s2c = [c \in Conns |-> <<>>]

\* The single-room server after its module has run, with no socket yet.
SingleInit ==
  /\ serverState = NewServerState
  /\ clients = {}

Init ==
  /\ ServerInit
  /\ ClientIdle
  /\ SingleInit
  /\ wsClient = [c \in Conns |-> NewWebSocketClient]
  /\ timerHistory = [ht \in Hashes \X TimerIds |-> NewTimerHistory]
  /\ countdown = NewCountdown

Post ==
  \E h \in {"abc", NoHash}, hasConfig \in BOOLEAN, config \in Configs :
    PostTournament(h, hasConfig, config)

Join == \E c \in Conns, m \in JoinMsgs : JoinTournament(c, m)

Early == \E c \in Conns, t \in MutatingTypes \cup {"REQUEST_FULL_STATE"} :
           \E m \in MsgsOf(t) : NotJoined(c, m)

TextField == \E c \in Conns, m \in MsgsOf("UPDATE_TEXT_FIELD") :
               VersionOf(c) < MaxVersion /\ UpdateTextField(c, m)
Chombo == \E c \in Conns, m \in MsgsOf("UPDATE_CHOMBO") :
               VersionOf(c) < MaxVersion /\ UpdateChombo(c, m)
Config == \E c \in Conns, m \in MsgsOf("UPDATE_CONFIG") :
               VersionOf(c) < MaxVersion /\ UpdateConfig(c, m)
PlayerNames == \E c \in Conns, m \in MsgsOf("UPDATE_PLAYER_NAMES") :
               VersionOf(c) < MaxVersion /\ UpdatePlayerNames(c, m)
Recompute == \E c \in Conns, m \in MsgsOf("RECOMPUTE_TOURNAMENT") :
               VersionOf(c) < MaxVersion /\ RecomputeTournament(c, m)
Results == \E c \in Conns, m \in MsgsOf("UPDATE_RESULTS") :
               VersionOf(c) < MaxVersion /\ UpdateResults(c, m)
FullStateRequest == \E c \in Conns : RequestFullState(c, BareMsg("REQUEST_FULL_STATE"))

\* The snapshot a page holds, sent as RESTORE_FROM_SNAPSHOT.
Snapshots == { [textFieldRefs |-> [f \in {"round-0-table-0-person-1"} |-> 30000]] }

\* RESTORE_FROM_SNAPSHOT has no case in the switch (src/server.js:248-369).
Restore ==
  \E c \in Conns, snapshot \in Snapshots :
    UnknownType(c, Msg("RESTORE_FROM_SNAPSHOT", [state |-> snapshot]))
Unknown == \E c \in Conns : UnknownType(c, BareMsg("PING"))

\* The room model: creation, joins and the six mutating messages, handled
\* within one millisecond of the clock.
Next ==
  \/ (Post /\ UNCHANGED <<clientVars, otherVars>>)
  \/ (Join /\ UNCHANGED <<clientVars, otherVars>>)
  \/ (TextField /\ UNCHANGED <<clientVars, otherVars>>)
  \/ (Chombo /\ UNCHANGED <<clientVars, otherVars>>)
  \/ (Config /\ UNCHANGED <<clientVars, otherVars>>)
  \/ (PlayerNames /\ UNCHANGED <<clientVars, otherVars>>)
  \/ (Recompute /\ UNCHANGED <<clientVars, otherVars>>)
  \/ (Results /\ UNCHANGED <<clientVars, otherVars>>)

Spec == Init /\ [][Next]_vars

\* The controlling socket subscribes to the whole-event timer of room "abc".
ReadTimerJoin ==
  \E c \in {1} :
    JoinTimer(c, Msg("JOIN_TIMER", [hash |-> "abc", timerId |-> "tournament"]))

\* The read model: messages that are answered to the caller alone, between
\* text-field edits and clock ticks.
NextRead ==
  \/ (Post /\ UNCHANGED <<clientVars, otherVars>>)
  \/ (Join /\ UNCHANGED <<clientVars, otherVars>>)
  \/ (Early /\ UNCHANGED <<clientVars, otherVars>>)
  \/ (TextField /\ UNCHANGED <<clientVars, otherVars>>)
  \/ (FullStateRequest /\ UNCHANGED <<clientVars, otherVars>>)
  \/ (Unknown /\ UNCHANGED <<clientVars, otherVars>>)
  \/ (Restore /\ UNCHANGED <<clientVars, otherVars>>)
  \/ (ReadTimerJoin /\ UNCHANGED <<clientVars, otherVars>>)
  \/ (Tick /\ UNCHANGED <<clientVars, otherVars>>)

SpecRead == Init /\ [][NextRead]_vars

(****************************** timer model ********************************)
TimerJoinMsgs == { Msg("JOIN_TIMER", [hash |-> "abc", timerId |-> t]) : t \in TimerIds }

TimerMsgs(type) == { Msg(type, [timerId |-> t]) : t \in TimerIds }

\* TIMER_START is sent for the whole-event timer; the table timer is only
\* joined, paused, resumed and reset, so it stays as getOrCreateTimer made it.
StartMsgs == { Msg("TIMER_START", [timerId |-> t, duration |-> d]) :
                 t \in {"tournament"}, d \in Durations }

\* The sockets that command timers (the organiser's page, src/unnamed/part_002);
\* every socket may subscribe.
Controllers == {1}

PostAbc == \E config \in Configs : PostTournament("abc", TRUE, config)
TimerJoin == \E c \in Conns, m \in TimerJoinMsgs : JoinTimer(c, m)
Start == \E c \in Controllers, m \in StartMsgs : TimerStart(c, m)
Pause == \E c \in Controllers, m \in TimerMsgs("TIMER_PAUSE") : TimerPause(c, m)
Resume == \E c \in Controllers, m \in TimerMsgs("TIMER_RESUME") : TimerResume(c, m)
Reset == \E c \in Controllers, m \in TimerMsgs("TIMER_RESET") : TimerReset(c, m)

\* The timer model: one room, sockets that join its timers and command them,
\* and the clock.  server.js starts no interval or timeout of its own, so the
\* clock and the sockets' messages are all that happens.
NextTimer ==
  \/ (PostAbc /\ RecordTimerHistory /\ UNCHANGED <<clientVars, singleVars, wsClient, countdown>>)
  \/ (TimerJoin /\ RecordTimerHistory /\ UNCHANGED <<clientVars, singleVars, wsClient, countdown>>)
  \/ (Start /\ RecordTimerHistory /\ UNCHANGED <<clientVars, singleVars, wsClient, countdown>>)
  \/ (Pause /\ RecordTimerHistory /\ UNCHANGED <<clientVars, singleVars, wsClient, countdown>>)
  \/ (Resume /\ RecordTimerHistory /\ UNCHANGED <<clientVars, singleVars, wsClient, countdown>>)
  \/ (Reset /\ RecordTimerHistory /\ UNCHANGED <<clientVars, singleVars, wsClient, countdown>>)
  \/ (Tick /\ RecordTimerHistory /\ UNCHANGED <<clientVars, singleVars, wsClient, countdown>>)

SpecTimer == Init /\ [][NextTimer]_vars

(****************************** client model *******************************)
\* Client steps send nothing from the server.
ClientStep ==
  /\ out' = {}
  /\ last' = Event("CLIENT", 0, NoHash, NoTimer, FALSE, FALSE)
  /\ UNCHANGED <<tournaments, ws, now, prevFull, otherVars>>

\* WebSocketClient.send (src/websocket-client.js:65-71): the message is queued
\* on an open socket, and dropped otherwise.
WsClientSend(c, m) ==
  IF cli[c].sock = "OPEN" THEN Append(c2s[c], m) ELSE c2s[c]

\* connect(tournamentHash) and ws.onopen (src/websocket-client.js:13-30): the
\* socket opens and JOIN_TOURNAMENT is sent for the page's tournament.
ClientConnect(c, hash) ==
  /\ cli[c].sock = "NEW"
  /\ cli' = [cli EXCEPT ![c].sock = "OPEN"]
  /\ c2s' = [c2s EXCEPT ![c] = Append(@, Msg("JOIN_TOURNAMENT", [hash |-> hash]))]
  /\ UNCHANGED s2c
  /\ ClientStep

\* syncStateToServer (src/index.js:75-79)
WillSync(c) == ~cli[c].isSyncingFromServer /\ cli[c].hasReceivedInitialState

\* The input listener of a score field (src/index.js:858-914): the value is
\* stored locally, then handed to syncStateToServer.  edits counts the edits of
\* the page, and editedUnjoined records an edit made while the server did not
\* yet hold the page's socket in a room.
LocalEdit(c, fieldId, value) ==
  /\ cli[c].edits < MaxEdits
  /\ WillSync(c) /\ cli[c].sock = "OPEN" => Len(c2s[c]) < MaxQueue
  /\ cli' = [cli EXCEPT ![c].textFieldRefs = SetKey(@, fieldId, value),
                        ![c].edits = @ + 1,
                        ![c].editedUnjoined = @ \/ ~InRoom(c)]
  /\ c2s' = [c2s EXCEPT ![c] =
               IF WillSync(c)
               THEN WsClientSend(c, Msg("UPDATE_TEXT_FIELD",
                                        [fieldId |-> fieldId, value |-> value]))
               ELSE @]
  /\ UNCHANGED s2c
  /\ ClientStep

\* The page after the FULL_STATE handler (src/index.js:276-336).  An empty
\* server state is not applied.  Otherwise the fields are copied, and
\* playerNames.join (line 307) throws when the state has no playerNames of its
\* own: the throw is caught in ws.onmessage (src/websocket-client.js:32-39) and
\* lines 334-335 are not reached.
AfterFullState(page, state) ==
  IF state.isEmpty
  THEN [page EXCEPT !.hasReceivedInitialState = TRUE, !.isSyncingFromServer = FALSE]
  ELSE IF ~Has(state, "playerNames")
  THEN [page EXCEPT !.textFieldRefs = state.textFieldRefs, !.isSyncingFromServer = TRUE]
  ELSE [page EXCEPT !.textFieldRefs = state.textFieldRefs,
                    !.hasReceivedInitialState = TRUE,
                    !.isSyncingFromServer = FALSE]

\* The page after the TEXT_FIELD_UPDATED handler (src/index.js:339-355)
AfterTextFieldUpdated(page, payload) ==
  [page EXCEPT !.textFieldRefs = SetKey(@, payload.fieldId, payload.value),
               !.isSyncingFromServer = FALSE]

\* The handler with a UI update that fires the input listener of the field it
\* wrote: the value just applied is sent back to the server.
ClientReceiveEchoes(c) ==
  /\ s2c[c] # <<>>
  /\ LET e == Head(s2c[c]) IN
       /\ cli' = [cli EXCEPT ![c] =
                    IF e.type = "FULL_STATE" THEN AfterFullState(@, e.body.state)
                    ELSE IF e.type = "TEXT_FIELD_UPDATED"
                         THEN AfterTextFieldUpdated(@, e.body.payload)
                         ELSE @]
       /\ c2s' = [c2s EXCEPT ![c] =
                    IF e.type = "TEXT_FIELD_UPDATED" /\ Len(@) < MaxQueue
                    THEN WsClientSend(c, Msg("UPDATE_TEXT_FIELD", e.body.payload))
                    ELSE @]
  /\ s2c' = [s2c EXCEPT ![c] = Tail(@)]
  /\ ClientStep

\* ws.onmessage -> handleMessage (src/websocket-client.js:32-59): the handler
\* registered for the type runs; a type without handler is only logged.
ClientReceive(c) ==
  /\ s2c[c] # <<>>
  /\ LET e == Head(s2c[c]) IN
       cli' = [cli EXCEPT ![c] =
                 IF e.type = "FULL_STATE" THEN AfterFullState(@, e.body.state)
                 ELSE IF e.type = "TEXT_FIELD_UPDATED"
                      THEN AfterTextFieldUpdated(@, e.body.payload)
                      ELSE @]
  /\ s2c' = [s2c EXCEPT ![c] = Tail(@)]
  /\ UNCHANGED c2s
  /\ ClientStep

\* The envelopes of this step, appended to the queue of the socket they were
\* sent to (a handler sends at most one envelope to a socket).
Delivered ==
  s2c' = [d \in Conns |->
            IF \E e \in out' : e.to = d
            THEN Append(s2c[d], CHOOSE e \in out' : e.to = d)
            ELSE s2c[d]]

\* The server takes the next message of socket c off the wire.
ServerReceive(c) ==
  /\ c2s[c] # <<>>
  /\ \A d \in Conns : Len(s2c[d]) < MaxQueue
  /\ HandleClientMessage(c, Head(c2s[c]))
  /\ c2s' = [c2s EXCEPT ![c] = Tail(@)]
  /\ Delivered
  /\ UNCHANGED <<cli, otherVars>>

SyncValues == {25000, 30000}

\* The sync model: pages that open their socket for room "abc", edit one score
\* field, and exchange messages with the server over FIFO connections.
NextSync ==
  \/ (PostAbc /\ UNCHANGED <<clientVars, otherVars>>)
  \/ \E c \in Conns : ClientConnect(c, "abc")
  \/ \E c \in Conns, v \in SyncValues : LocalEdit(c, "round-0-table-0-person-1", v)
  \/ \E c \in Conns : ServerReceive(c)
  \/ \E c \in Conns : ClientReceive(c)

SpecSync == Init /\ [][NextSync]_vars

\* The pages whose user edits in the echo model; every other page only listens.
Editors == {1, 2}

\* The echo model: the sync model with one value to type and any number of
\* listening pages.
NextEcho ==
  \/ (PostAbc /\ UNCHANGED <<clientVars, otherVars>>)
  \/ \E c \in Conns : ClientConnect(c, "abc")
  \/ \E c \in Conns \cap Editors : LocalEdit(c, "round-0-table-0-person-1", 25000)
  \/ \E c \in Conns : ServerReceive(c)
  \/ \E c \in Conns : ClientReceive(c)

SpecEcho == Init /\ [][NextEcho]_vars

(**************************** socket lifecycle *****************************)
\* The transport of socket c starts to close: readyState is no longer OPEN,
\* and the 'close' event has not fired yet.
Closing(c) ==
  /\ ws[c].readyState = "OPEN"
  /\ ws' = [ws EXCEPT ![c].readyState = "CLOSING"]
  /\ out' = {}
  /\ last' = Event("closing", c, ws[c].tournamentHash, ws[c].timerId, FALSE, FALSE)
  /\ UNCHANGED <<tournaments, now, prevFull>>

\* The room after tournament.clients.delete(ws) and, for the timer the socket
\* is bound to, timer.clients.delete(ws)  (src/server.js:110-117)
RoomAfterClose(T, sock, c) ==
  LET timers == IF sock.timerId # NoTimer /\ sock.timerId \in DOMAIN T.timers
                THEN [T.timers EXCEPT ![sock.timerId].clients = @ \ {c}]
                ELSE T.timers
  IN [T EXCEPT !.clients = @ \ {c}, !.timers = timers]

\* ws.on('close') (src/server.js:106-122)
OnClose(c) ==
  /\ ws[c].readyState = "CLOSING"
  /\ LET h == ws[c].tournamentHash IN
       tournaments' = IF h # NoHash /\ h \in DOMAIN tournaments
                      THEN [tournaments EXCEPT ![h] = RoomAfterClose(@, ws[c], c)]
                      ELSE tournaments
  /\ ws' = [ws EXCEPT ![c].readyState = "CLOSED"]
  /\ out' = {}
  /\ last' = Event("close", c, ws[c].tournamentHash, ws[c].timerId, FALSE, FALSE)
  /\ UNCHANGED <<now, prevFull>>

\* ws.on('error') (src/server.js:124-132); the socket then closes.
OnError(c) ==
  /\ ws[c].readyState = "OPEN"
  /\ LET h == ws[c].tournamentHash IN
       tournaments' = IF h # NoHash /\ h \in DOMAIN tournaments
                      THEN [tournaments EXCEPT ![h].clients = @ \ {c}]
                      ELSE tournaments
  /\ ws' = [ws EXCEPT ![c].readyState = "CLOSING"]
  /\ out' = {}
  /\ last' = Event("error", c, ws[c].tournamentHash, ws[c].timerId, FALSE, FALSE)
  /\ UNCHANGED <<now, prevFull>>

(*************************** connection model ******************************)
\* Each room is created once.
PostAny ==
  \E h \in Hashes \ DOMAIN tournaments, config \in Configs : PostTournament(h, TRUE, config)

\* The controlling socket joins room "abc"; the other sockets join any room.
ConnJoin ==
  \E c \in Conns, m \in JoinMsgs :
    /\ IsOpen(c)
    /\ c \in Controllers => m.payload.hash = "abc"
    /\ JoinTournament(c, m)

\* The whole-event timer of room "abc" is the timer that is joined.
ConnTimerJoin ==
  \E c \in Conns :
    /\ IsOpen(c)
    /\ JoinTimer(c, Msg("JOIN_TIMER", [hash |-> "abc", timerId |-> "tournament"]))

ConnEdit ==
  \E c \in Controllers :
    /\ IsOpen(c) /\ VersionOf(c) < MaxConnVersion
    /\ UpdateTextField(c, Msg("UPDATE_TEXT_FIELD",
                              [fieldId |-> "round-0-table-0-person-1", value |-> 25000]))

ConnStart ==
  \E c \in Controllers :
    IsOpen(c) /\ TimerStart(c, Msg("TIMER_START", [timerId |-> "tournament", duration |-> 1]))

\* The connection model: two rooms, sockets that join rooms and timers, one
\* socket that edits and starts timers, and the other sockets, which may close
\* or fail.
NextConn ==
  \/ (PostAny /\ UNCHANGED <<clientVars, otherVars>>)
  \/ (ConnJoin /\ UNCHANGED <<clientVars, otherVars>>)
  \/ (ConnTimerJoin /\ UNCHANGED <<clientVars, otherVars>>)
  \/ (ConnEdit /\ UNCHANGED <<clientVars, otherVars>>)
  \/ (ConnStart /\ UNCHANGED <<clientVars, otherVars>>)
  \/ \E c \in Conns \ Controllers : Closing(c) /\ UNCHANGED <<clientVars, otherVars>>
  \/ \E c \in Conns \ Controllers : OnClose(c) /\ UNCHANGED <<clientVars, otherVars>>
  \/ \E c \in Conns \ Controllers : OnError(c) /\ UNCHANGED <<clientVars, otherVars>>

SpecConn == Init /\ [][NextConn]_vars

(***************************** creation model ******************************)
\* Configs in the body of POST /api/tournament: numbers, some of them 0.
CreateConfigs ==
  { [groups |-> 2, ofSize |-> 2, forRounds |-> 1],
    [groups |-> 0, ofSize |-> 2, forRounds |-> 1],
    [groups |-> 1, ofSize |-> 0, forRounds |-> 0] }

PostCreate ==
  \E h \in Hashes \cup {NoHash} :
    \/ \E config \in CreateConfigs : PostTournament(h, TRUE, config)
    \/ PostTournament(h, FALSE, EmptyObj)

CreateJoin == \E c \in Controllers, m \in JoinMsgs : JoinTournament(c, m)

CreateTimerJoin == \E c \in Controllers, m \in TimerJoinMsgs : JoinTimer(c, m)

\* The creation model: requests that create rooms or are rejected, and one
\* socket that joins the rooms that exist, joins their timers and edits.
NextCreate ==
  \/ (PostCreate /\ UNCHANGED <<clientVars, otherVars>>)
  \/ (CreateJoin /\ UNCHANGED <<clientVars, otherVars>>)
  \/ (CreateTimerJoin /\ UNCHANGED <<clientVars, otherVars>>)
  \/ (ConnEdit /\ UNCHANGED <<clientVars, otherVars>>)

SpecCreate == Init /\ [][NextCreate]_vars

(**************************** single-room model ****************************)
\* Snapshots a page may hold in localStorage: a scored tournament, one that
\* carries isEmpty and version fields of its own, and an empty object.
SingleSnapshots ==
  { [textFieldRefs |-> [f \in {"round-0-table-0-person-1"} |-> 30000],
     chomboRefs |-> EmptyObj, playerNames |-> <<"Ann", "Bob">>],
    [isEmpty |-> TRUE, version |-> 7],
    EmptyObj }

\* RESTORE_FROM_LOCALSTORAGE with a snapshot, with a payload that has no state,
\* and with no payload.
RestoreMsgs ==
  { Msg("RESTORE_FROM_LOCALSTORAGE", [state |-> snapshot]) : snapshot \in SingleSnapshots }
    \cup { Msg("RESTORE_FROM_LOCALSTORAGE", EmptyObj), BareMsg("RESTORE_FROM_LOCALSTORAGE") }

SingleConfigPayloads == { [oka |-> 20], [isEmpty |-> TRUE] }

\* The sockets that send: the controlling sockets, once added by the
\* connection handler; the other sockets connect, listen and close.
Senders == { c \in clients \cap Controllers : IsOpen(c) }

\* The messages the controlling sockets send besides the restores, one of
\* each type; UPDATE_CONFIG and RECOMPUTE_TOURNAMENT also with a payload that
\* carries isEmpty, and RECOMPUTE_TOURNAMENT also with no payload.
SingleMsgs ==
  { Msg("UPDATE_TEXT_FIELD", [fieldId |-> "round-0-table-0-person-1", value |-> 25000]),
    Msg("UPDATE_CHOMBO", [person |-> "person-1", count |-> 1]),
    Msg("UPDATE_PLAYER_NAMES", [playerNames |-> <<"Ann", "Bob">>]),
    Msg("UPDATE_RESULTS", [results |-> 1]),
    Msg("RECOMPUTE_TOURNAMENT", [config |-> [isEmpty |-> TRUE]]),
    BareMsg("RECOMPUTE_TOURNAMENT"),
    BareMsg("REQUEST_FULL_STATE"),
    BareMsg("PING") }
    \cup { Msg("UPDATE_CONFIG", payload) : payload \in SingleConfigPayloads }

\* handleClientMessage of the single-room server (src/unnamed/part_001:347-426)
SingleHandleClientMessage(c, m) ==
  \/ SingleUpdateTextField(c, m)
  \/ SingleUpdateChombo(c, m)
  \/ SingleUpdateConfig(c, m)
  \/ SingleUpdatePlayerNames(c, m)
  \/ SingleRecomputeTournament(c, m)
  \/ SingleUpdateResults(c, m)
  \/ SingleRequestFullState(c, m)
  \/ RestoreFromLocalStorage(c, m)
  \/ SingleUnknownType(c, m)

\* What the handlers of the single-room server leave alone.
SingleFrame ==
  UNCHANGED <<tournaments, ws, now, prevFull, clientVars, wsClient, timerHistory, countdown>>

\* The single-room model: sockets connect to the one process, the controlling
\* sockets send it every type of message, the other sockets close, and the
\* clock advances.
NextSingle ==
  \/ \E c \in Conns : SingleConnection(c) /\ SingleFrame
  \/ \E c \in Senders, m \in SingleMsgs \cup RestoreMsgs :
       serverState.version < MaxVersion /\ SingleHandleClientMessage(c, m) /\ SingleFrame
  \/ \E c \in Conns \ Controllers : Closing(c) /\ UNCHANGED <<clientVars, otherVars>>
  \/ \E c \in Conns \ Controllers : SingleOnClose(c)
                        /\ UNCHANGED <<tournaments, now, prevFull, clientVars, wsClient, timerHistory,
                                       countdown>>
  \/ (Tick /\ UNCHANGED <<clientVars, otherVars>>)

SpecSingle == Init /\ [][NextSingle]_vars

(***************************** reconnect model *****************************)
\* The reconnect model: pages that connect, and transports that open, close
\* and fail at any time.
NextReconnect ==
  \/ PageConnect
  \/ Opens
  \/ Closes
  \/ TimeoutFires

SpecReconnect == Init /\ [][NextReconnect]_vars

(**************************** countdown model ******************************)
\* The countdown model: clients that connect to the CountdownServer, send it
\* commands and disconnect, while time passes and the expiry check runs.
NextCountdown ==
  \/ \E c \in Conns : CountdownConnection(c)
  \/ \E c \in Conns \ Controllers : CountdownOnClose(c)
  \/ \E c \in countdown.clients \cap Controllers :
       \/ TimeSync(c, 0)
       \/ \E d \in Durations : StartTimer(c, d)
       \/ PauseTimer(c)
       \/ ResumeTimer(c)
       \/ CountdownResetTimer(c)
  \/ TimerCheck
  \/ (Tick /\ UNCHANGED <<clientVars, otherVars>>)

SpecCountdown == Init /\ [][NextCountdown]_vars

(******************************* rooms model *******************************)
\* The room a socket of the rooms model may name in a join: the controlling
\* socket names either room, the other sockets name room "xyz".
RoomsFor(c) == IF c \in Controllers THEN Hashes ELSE {"xyz"}

\* The rooms model: two rooms, each with a whole-event timer of the same id;
\* sockets join a room or its timer, and the controlling socket edits a score
\* field and commands the timer of the room it is bound to.
NextRooms ==
  \/ \E h \in Hashes \ DOMAIN tournaments :
       /\ PostTournament(h, TRUE, [groups |-> 2, ofSize |-> 2, forRounds |-> 1])
       /\ UNCHANGED <<clientVars, otherVars>>
  \/ \E c \in Conns : \E h \in RoomsFor(c) :
       /\ JoinTournament(c, Msg("JOIN_TOURNAMENT", [hash |-> h]))
       /\ UNCHANGED <<clientVars, otherVars>>
  \/ \E c \in Conns : \E h \in RoomsFor(c) :
       /\ JoinTimer(c, Msg("JOIN_TIMER", [hash |-> h, timerId |-> "tournament"]))
       /\ UNCHANGED <<clientVars, otherVars>>
  \/ \E c \in Controllers :
       /\ VersionOf(c) < MaxConnVersion
       /\ UpdateTextField(c, Msg("UPDATE_TEXT_FIELD",
                                 [fieldId |-> "round-0-table-0-person-1", value |-> 25000]))
       /\ UNCHANGED <<clientVars, otherVars>>
  \/ \E c \in Controllers :
       /\ TimerStart(c, Msg("TIMER_START", [timerId |-> "tournament", duration |-> 1]))
       /\ UNCHANGED <<clientVars, otherVars>>
  \/ \E c \in Controllers :
       /\ TimerPause(c, Msg("TIMER_PAUSE", [timerId |-> "tournament"]))
       /\ UNCHANGED <<clientVars, otherVars>>
  \/ \E c \in Controllers :
       /\ TimerReset(c, Msg("TIMER_RESET", [timerId |-> "tournament"]))
       /\ UNCHANGED <<clientVars, otherVars>>

SpecRooms == Init /\ [][NextRooms]_vars

(***************************** first-edit model ****************************)
\* The first-edit model: one room; every socket joins it, and the controlling
\* socket also joins its timer, commands the timer, edits a score field and
\* sends config updates, one of them naming isEmpty.
NextEmpty ==
  \/ (PostAbc /\ UNCHANGED <<clientVars, otherVars>>)
  \/ \E c \in Conns :
       /\ JoinTournament(c, Msg("JOIN_TOURNAMENT", [hash |-> "abc"]))
       /\ UNCHANGED <<clientVars, otherVars>>
  \/ \E c \in Controllers :
       /\ JoinTimer(c, Msg("JOIN_TIMER", [hash |-> "abc", timerId |-> "tournament"]))
       /\ UNCHANGED <<clientVars, otherVars>>
  \/ \E c \in Controllers :
       /\ VersionOf(c) < MaxVersion
       /\ UpdateTextField(c, Msg("UPDATE_TEXT_FIELD",
                                 [fieldId |-> "round-0-table-0-person-1", value |-> 25000]))
       /\ UNCHANGED <<clientVars, otherVars>>
  \/ \E c \in Controllers, payload \in {[oka |-> 20, isEmpty |-> TRUE], [version |-> 0]} :
       /\ VersionOf(c) < MaxVersion
       /\ UpdateConfig(c, Msg("UPDATE_CONFIG", payload))
       /\ UNCHANGED <<clientVars, otherVars>>
  \/ \E c \in Controllers :
       /\ UpdateConfig(c, BareMsg("UPDATE_CONFIG"))
       /\ UNCHANGED <<clientVars, otherVars>>
  \/ \E c \in Controllers :
       /\ TimerStart(c, Msg("TIMER_START", [timerId |-> "tournament", duration |-> 1]))
       /\ UNCHANGED <<clientVars, otherVars>>
  \/ \E c \in Controllers :
       /\ TimerPause(c, Msg("TIMER_PAUSE", [timerId |-> "tournament"]))
       /\ UNCHANGED <<clientVars, otherVars>>
  \/ \E c \in Controllers :
       /\ TimerReset(c, Msg("TIMER_RESET", [timerId |-> "tournament"]))
       /\ UNCHANGED <<clientVars, otherVars>>

SpecEmpty == Init /\ [][NextEmpty]_vars

(***************************************************************************)
(* Claims about the room model (Spec)                                       *)
(***************************************************************************)
\* The step just taken handled a message of a mutating type on a socket that is
\* in room h, and the handler ran to its end.
Accepted(h) == last'.type \in MutatingTypes /\ last'.hash = h /\ ~last'.threw

\* C1: for every room, version never decreases, and every accepted mutating
\* message increases it by exactly 1, whatever the payload holds.
C1_VersionMonotone ==
  [][\A h \in DOMAIN tournaments :
       /\ tournaments'[h].version >= tournaments[h].version
       /\ Accepted(h) => tournaments'[h].version = tournaments[h].version + 1]_vars

\* C2: the locked fields groups, ofSize and forRounds of every room's config
\* keep the values they were created with, after any message.
C2_LockedConfig ==
  [][\A h \in DOMAIN tournaments :
       \A k \in LockedKeys :
         Get(tournaments'[h].config, k) = Get(tournaments[h].config, k)]_vars

\* The fields of a room that hold tournament data.
RoomData(T) == Rest(T, {"clients", "timers", "version", "isEmpty", "lastUpdated"})

\* Every open socket in the room's clients set was sent an envelope in this step.
BroadcastSent(T) == \A c \in T.clients : IsOpen(c) => \E e \in out' : e.to = c

\* C4: a message either applies its full effect (data change, version
\* increment, broadcast) or changes none of the room's data; no step changes
\* data fields without incrementing version and broadcasting.
C4_AllOrNothing ==
  [][\A h \in DOMAIN tournaments :
       RoomData(tournaments'[h]) # RoomData(tournaments[h])
         => /\ tournaments'[h].version = tournaments[h].version + 1
            /\ BroadcastSent(tournaments'[h])]_vars

(***************************************************************************)
(* Claims about the read model (SpecRead)                                   *)
(***************************************************************************)
\* C9: a REQUEST_FULL_STATE changes no room state, and its reply equals the
\* reply to the same socket's previous REQUEST_FULL_STATE when no mutating
\* message was accepted in between.
C9_IdempotentRead ==
  [][last'.type = "REQUEST_FULL_STATE" /\ last'.hash # NoHash
       => /\ tournaments' = tournaments
          /\ prevFull.conn = last'.conn => prevFull'.state = prevFull.state]_vars

\* The step just taken handled a message, not a join, that arrived on a socket
\* bound to no room.
UnboundMessage ==
  /\ last'.conn \in Conns
  /\ last'.type \notin JoinTypes
  /\ ws[last'.conn].tournamentHash = NoHash

\* C10: a message other than a join on an unbound socket is answered with one
\* ERROR envelope to that socket alone; no room, timer or version changes,
\* nothing is broadcast, and the socket stays open and unbound.
C10_MustJoinFirst ==
  [][UnboundMessage
       => /\ out' = {Env(last'.conn, "ERROR", [error |-> "Must join a tournament first"])}
          /\ tournaments' = tournaments
          /\ ws' = ws]_vars

\* A mutating message arrived on an unbound socket while another socket was
\* subscribed to an existing room.
C10_Witness ==
  /\ last.type \in MutatingTypes
  /\ last.conn \in Conns
  /\ ~Bound(last.conn)
  /\ \E e \in out : e.to = last.conn /\ e.type = "ERROR"
  /\ \E h \in DOMAIN tournaments : tournaments[h].clients # {}

(***************************************************************************)
(* Claims about the timer model (SpecTimer)                                 *)
(***************************************************************************)
\* Every timer of every room, as <<hash, timerId>>.
AllTimers == { <<h, t>> \in (DOMAIN tournaments) \X TimerIds : t \in DOMAIN tournaments[h].timers }

TimerAt(h, t) == tournaments[h].timers[t]

\* C5: a TIMER_START for a timer that is already running changes nothing of
\* that timer and broadcasts no TIMER_STARTED.
C5_StartWhileRunningNoOp ==
  [][last'.type = "TIMER_START" /\ last'.wasRunning
       => /\ tournaments'[last'.hash].timers[last'.timerId]
               = tournaments[last'.hash].timers[last'.timerId]
          /\ \A e \in out' : e.type # "TIMER_STARTED"]_vars

\* C6: a started timer that is neither paused nor reset is set to
\* isRunning = false once the clock has reached its endTime, with no client
\* message needed.  A clock step is longer than the scan period, so a timer
\* that is still running a whole clock step after its endTime has been passed
\* over by every scan in between.
C6_FinishedAtEndTime ==
  \A ht \in AllTimers :
    TimerAt(ht[1], ht[2]).isRunning => now < TimerAt(ht[1], ht[2]).endTime + TickMs

\* C7: in every reachable state no timer has isRunning = true together with
\* pausedTime > 0.
C7_RunningXorPaused ==
  \A ht \in AllTimers :
    ~(TimerAt(ht[1], ht[2]).isRunning /\ TimerAt(ht[1], ht[2]).pausedTime > 0)

\* A timer that was paused with time left has just been resumed.
C7_Witness ==
  /\ last.type = "TIMER_RESUME"
  /\ ~last.wasRunning
  /\ <<last.hash, last.timerId>> \in AllTimers
  /\ TimerAt(last.hash, last.timerId).isRunning
  /\ TimerAt(last.hash, last.timerId).endTime > now

\* C8: TIMER_RESUME for a timer that is running, or is not running with
\* pausedTime = 0, or does not exist, changes no timer, creates none and sends
\* nothing.
C8_ResumeNoOp ==
  [][/\ last'.type = "TIMER_RESUME"
     /\ LET timers == tournaments[last'.hash].timers
            t == last'.timerId
        IN \/ t \notin DOMAIN timers
           \/ timers[t].isRunning
           \/ timers[t].pausedTime = 0
     => /\ tournaments'[last'.hash].timers = tournaments[last'.hash].timers
        /\ out' = {}]_vars

\* TIMER_RESUME was just handled for a timer that had run before, is stopped
\* with nothing left and has a subscriber.
C8_Witness ==
  /\ last.type = "TIMER_RESUME"
  /\ <<last.hash, last.timerId>> \in AllTimers
  /\ ~TimerAt(last.hash, last.timerId).isRunning
  /\ TimerAt(last.hash, last.timerId).pausedTime = 0
  /\ TimerAt(last.hash, last.timerId).duration > 0
  /\ TimerAt(last.hash, last.timerId).clients # {}
  /\ out = {}

(***************************************************************************)
(* Claims about the sync model (SpecSync)                                   *)
(***************************************************************************)
\* No message is in flight.
Quiescent == \A c \in Conns : c2s[c] = <<>> /\ s2c[c] = <<>>

\* The sockets the server holds in a room's clients set.
Joined(h) == IF h \in DOMAIN tournaments THEN tournaments[h].clients ELSE {}

\* C3: when every page made its edits while joined to the room and every sent
\* message has been delivered, the textFieldRefs of every page joined to the
\* room equals the room's textFieldRefs on the server.
C3_Convergence ==
  Quiescent /\ (\A c \in Conns : ~cli[c].editedUnjoined) =>
    \A c \in Joined("abc") : cli[c].textFieldRefs = JsonFlat(tournaments["abc"].textFieldRefs)

(***************************************************************************)
(* Claims about joins (SpecConn, SpecTimer)                                 *)
(***************************************************************************)
\* The step just taken handled a join, with a payload, naming room h.
JoinNaming(type, h) == last'.type = type /\ ~last'.threw /\ last'.hash = h

\* The binding of a socket.
Binding(sock) == <<sock.tournamentHash, sock.timerId>>

\* C11: a JOIN_TOURNAMENT or JOIN_TIMER naming a room that does not exist is
\* answered with one ERROR envelope to the caller alone; no room, timer or
\* subscriber set changes, and every socket keeps its binding.
C11_JoinUnknownRoom ==
  [][\A type \in JoinTypes, h \in Hashes :
       JoinNaming(type, h) /\ h \notin DOMAIN tournaments
       => /\ \E e \in out' : out' = {e} /\ e.to = last'.conn /\ e.type = "ERROR"
          /\ tournaments' = tournaments
          /\ \A c \in Conns : Binding(ws'[c]) = Binding(ws[c])]_vars

\* A socket bound to a room and a timer has just sent a join for a room that
\* does not exist.
C11_Witness ==
  /\ last.type \in JoinTypes
  /\ last.hash \in Hashes \ DOMAIN tournaments
  /\ ws[last.conn].tournamentHash \in DOMAIN tournaments
  /\ ws[last.conn].timerId # NoTimer
  /\ \E e \in out : e.to = last.conn /\ e.type = "ERROR"

\* C12: JOIN_TOURNAMENT for an existing room adds the caller to the room's
\* clients, binds the socket to the room and sends the caller alone one
\* FULL_STATE whose state has every field of the room but clients; nothing else
\* of the room, no other room and no other socket changes.
C12_JoinExistingRoom ==
  [][\A h \in DOMAIN tournaments :
       JoinNaming("JOIN_TOURNAMENT", h)
       => LET c == last'.conn
              T == tournaments[h] IN
          /\ tournaments'[h].clients = T.clients \cup {c}
          /\ Rest(tournaments'[h], {"clients"}) = Rest(T, {"clients"})
          /\ \A g \in DOMAIN tournaments \ {h} : tournaments'[g] = tournaments[g]
          /\ ws'[c].tournamentHash = h
          /\ \A d \in Conns \ {c} : ws'[d] = ws[d]
          /\ \E e \in out' :
               /\ out' = {e} /\ e.to = c /\ e.type = "FULL_STATE"
               /\ DOMAIN e.body.state = DOMAIN T \ {"clients"}
               /\ \A k \in DOMAIN T \ {"clients", "timers"} : e.body.state[k] = T[k]]_vars

\* A socket has just joined a room that was edited and has another open member.
C12_Witness ==
  /\ last.type = "JOIN_TOURNAMENT"
  /\ last.hash \in DOMAIN tournaments
  /\ tournaments[last.hash].version > 0
  /\ \E d \in tournaments[last.hash].clients : d # last.conn /\ IsOpen(d)
  /\ \E e \in out : e.to = last.conn /\ e.type = "FULL_STATE"

\* C13: JOIN_TIMER for an existing room creates the named timer idle if it does
\* not exist, adds the caller to its clients, changes nothing else of any timer,
\* and sends the caller alone one TIMER_SYNC with isRunning, endTime and
\* timeLeft = max(0, endTime - now) when running, pausedTime otherwise.
C13_JoinTimer ==
  [][\A h \in DOMAIN tournaments :
       JoinNaming("JOIN_TIMER", h)
       => LET c == last'.conn
              t == last'.timerId
              old == tournaments[h].timers
              new == tournaments'[h].timers IN
          /\ DOMAIN new = DOMAIN old \cup {t}
          /\ t \notin DOMAIN old
               => ~new[t].isRunning /\ new[t].endTime = 0 /\ new[t].pausedTime = 0
          /\ \A u \in DOMAIN old : Rest(new[u], {"clients"}) = Rest(old[u], {"clients"})
          /\ \A u \in DOMAIN old \ {t} : new[u] = old[u]
          /\ new[t].clients = (IF t \in DOMAIN old THEN old[t].clients ELSE {}) \cup {c}
          /\ \E e \in out' :
               /\ out' = {e} /\ e.to = c /\ e.type = "TIMER_SYNC"
               /\ e.body.payload.isRunning = new[t].isRunning
               /\ e.body.payload.endTime = new[t].endTime
               /\ e.body.payload.timeLeft =
                    IF new[t].isRunning
                    THEN (IF new[t].endTime > now THEN new[t].endTime - now ELSE 0)
                    ELSE new[t].pausedTime]_vars

\* A socket has just joined a timer that is running past its endTime, and was
\* told that no time is left.
C13_Witness ==
  /\ last.type = "JOIN_TIMER"
  /\ <<last.hash, last.timerId>> \in AllTimers
  /\ TimerAt(last.hash, last.timerId).isRunning
  /\ TimerAt(last.hash, last.timerId).endTime < now
  /\ \E e \in out : e.type = "TIMER_SYNC" /\ e.body.payload.timeLeft = 0

(***************************************************************************)
(* Claims about POST /api/tournament (SpecCreate)                           *)
(***************************************************************************)
\* The step just taken was a POST /api/tournament.
Posted == last'.type = "POST"

\* C14: a POST /api/tournament without id is answered 400 and one whose id
\* exists is answered 400 or 409; a request answered 400 or 409 creates no room
\* and leaves every room, the one with that id included, as it was.
C14_RejectedPost ==
  [][Posted
       => /\ last'.hash = NoHash => last'.status = 400
          /\ last'.hash \in DOMAIN tournaments => last'.status \in {400, 409}
          /\ last'.status \in {400, 409} => tournaments' = tournaments]_vars

\* A request was just answered 409 for a room that has been edited and has a
\* member and a timer.
C14_Witness ==
  /\ last.type = "POST" /\ last.status = 409
  /\ last.hash \in DOMAIN tournaments
  /\ tournaments[last.hash].version > 0
  /\ tournaments[last.hash].clients # {}
  /\ DOMAIN tournaments[last.hash].timers # {}

\* C15: a POST /api/tournament that is not rejected is answered with status 201.
C15_Created201 ==
  (last.type = "POST" /\ last.status \notin {400, 409}) => last.status = 201

\* The step just taken created room h from the submitted config.
Created(h, config) ==
  /\ h \notin DOMAIN tournaments
  /\ PostTournament(h, TRUE, config)

\* C16 as stated: the new room's playerNames is 'Player 1' .. 'Player N' with
\* N = groups x ofSize of the submitted config, version is 0 and isEmpty holds.
C16_NamesFromSubmitted ==
  [][\A h \in Hashes, config \in CreateConfigs :
       Created(h, config)
       => /\ tournaments'[h].config.playerNames
               = DefaultPlayerNames(config.groups * config.ofSize)
          /\ tournaments'[h].version = 0
          /\ tournaments'[h].isEmpty]_vars

\* The value the room stores for a submitted number: 0 gives the default.
Stored(x, d) == IF x = 0 THEN d ELSE x

\* C16, amended: the new room stores groups and ofSize of the submitted config
\* with 3 in place of groups = 0 and 4 in place of ofSize = 0, its playerNames
\* is 'Player 1' .. 'Player N' with N = stored groups x stored ofSize, version
\* is 0 and isEmpty holds.
C16_NamesFromStored ==
  [][\A h \in Hashes, config \in CreateConfigs :
       Created(h, config)
       => LET T == tournaments'[h] IN
          /\ T.config.groups = Stored(config.groups, 3)
          /\ T.config.ofSize = Stored(config.ofSize, 4)
          /\ T.config.playerNames = DefaultPlayerNames(T.config.groups * T.config.ofSize)
          /\ T.version = 0
          /\ T.isEmpty]_vars

\* A room was just created from a config with groups = 0: it stores 3 groups
\* and has 3 x ofSize player names.
C16_Witness ==
  /\ last.type = "POST" /\ last.status = 200
  /\ tournaments[last.hash].config.groups = 3
  /\ tournaments[last.hash].config.ofSize = 2
  /\ Len(tournaments[last.hash].config.playerNames) = 6

(***************************************************************************)
(* Claims about disconnects and broadcasts (SpecConn, Spec, SpecRead)       *)
(***************************************************************************)
\* The sets socket c is a member of: rooms, and timers as <<hash, timerId>>.
RoomsOf(c) == { h \in DOMAIN tournaments : c \in tournaments[h].clients }
TimersOf(c) == { ht \in AllTimers : c \in TimerAt(ht[1], ht[2]).clients }

\* C17: a socket whose 'close' handler has run is in the clients set of no room
\* and of no timer.
C17_ClosedEverywhere ==
  \A c \in Conns : ws[c].readyState = "CLOSED" => RoomsOf(c) = {} /\ TimersOf(c) = {}

\* The sockets this step sent an envelope to.
Recipients == { e.to : e \in out' }

\* C18: the envelopes of an accepted room mutation go to exactly the open
\* sockets of the room's clients set, and the mutation is applied; the
\* envelopes of a TIMER_START go to exactly the open sockets of the timer's
\* clients set, and the timer is started.
C18_BroadcastTargets ==
  [][/\ \A h \in DOMAIN tournaments :
          Accepted(h)
          => /\ Recipients = { c \in tournaments[h].clients : ws[c].readyState = "OPEN" }
             /\ tournaments'[h].version = tournaments[h].version + 1
     /\ (last'.type = "TIMER_START" /\ ~last'.threw /\ last'.hash \in DOMAIN tournaments)
          => LET timer == tournaments'[last'.hash].timers[last'.timerId] IN
             /\ Recipients = { c \in timer.clients : ws[c].readyState = "OPEN" }
             /\ \A e \in out' : e.type = "TIMER_STARTED"
             /\ timer.isRunning]_vars

\* An edit was just accepted in a room with a member that is not open: the
\* open members were sent the update, the other was not.
C18_Witness ==
  /\ last.type = "UPDATE_TEXT_FIELD" /\ ~last.threw
  /\ last.hash \in DOMAIN tournaments
  /\ \E d \in tournaments[last.hash].clients : ~IsOpen(d) /\ \A e \in out : e.to # d
  /\ \E e \in out : e.type = "TEXT_FIELD_UPDATED" /\ e.to \in tournaments[last.hash].clients

\* C19: when two steps in a row are accepted mutations of one room, the version
\* a member is sent by the second is 1 greater than the version it was sent by
\* the first, and is the room's version after the second.
C19_BroadcastOrder ==
  [][(/\ last.type \in MutatingTypes /\ ~last.threw
      /\ last'.type \in MutatingTypes /\ ~last'.threw
      /\ last.hash = last'.hash)
     => \A e \in out, f \in out' :
          e.to = f.to
          => /\ f.body.version = e.body.version + 1
             /\ f.body.version = tournaments'[last'.hash].version]_vars

\* C20: RESTORE_FROM_SNAPSHOT from a joined socket, for a room that is empty,
\* replaces the room's data from the snapshot, increments version, clears
\* isEmpty and sends an envelope to every open member.
C20_RestoreFromSnapshot ==
  [][\A h \in DOMAIN tournaments, snapshot \in Snapshots :
       (last'.type = "RESTORE_FROM_SNAPSHOT" /\ last'.hash = h /\ tournaments[h].isEmpty)
       => /\ tournaments'[h].textFieldRefs = snapshot.textFieldRefs
          /\ tournaments'[h].version = tournaments[h].version + 1
          /\ ~tournaments'[h].isEmpty
          /\ BroadcastSent(tournaments'[h])]_vars

(***************************************************************************)
(* Claims about the timer commands (SpecTimer)                              *)
(***************************************************************************)
\* The envelopes of one broadcast to every subscriber of a timer.
ToSubscribers(timer, type, payload) ==
  { Env(c, type, [payload |-> payload, timestamp |-> now]) : c \in timer.clients }

\* C24: TIMER_PAUSE on a running timer sets isRunning = false and
\* pausedTime = max(0, endTime - now), leaves the rest of the timer and every
\* other timer alone, and sends TIMER_PAUSED with timeLeft = pausedTime to each
\* subscriber of the timer; on a timer that is not running or does not exist it
\* changes no timer, creates none and sends nothing.  (Started at t = 0 with
\* 60 s and paused at t = 10 s: endTime - now = 60000 - 10000 = 50000.)
C24_TimerPause ==
  [][last'.type = "TIMER_PAUSE" /\ ~last'.threw
     => LET timers == tournaments[last'.hash].timers
            t == last'.timerId
            left == IF timers[t].endTime > now THEN timers[t].endTime - now ELSE 0
        IN IF t \in DOMAIN timers /\ timers[t].isRunning
           THEN /\ tournaments'[last'.hash].timers =
                     [timers EXCEPT ![t].isRunning = FALSE, ![t].pausedTime = left]
                /\ out' = ToSubscribers(timers[t], "TIMER_PAUSED",
                                        [timeLeft |-> left, timerId |-> t])
           ELSE /\ tournaments'[last'.hash].timers = timers
                /\ out' = {}]_vars

\* A running timer with a subscriber has just been paused with time left.
C24_Witness ==
  /\ last.type = "TIMER_PAUSE" /\ last.wasRunning
  /\ now > 0
  /\ TimerAt(last.hash, last.timerId).pausedTime = TimerAt(last.hash, last.timerId).endTime - now
  /\ TimerAt(last.hash, last.timerId).pausedTime > 0
  /\ \E e \in out : e.type = "TIMER_PAUSED"
                     /\ e.body.payload.timeLeft = TimerAt(last.hash, last.timerId).pausedTime

\* C25: TIMER_RESET on an existing timer, whatever its state, sets
\* isRunning = false and startTime, endTime and pausedTime to 0 and sends
\* TIMER_RESET to each subscriber; for a timer that has not been started since,
\* TIMER_RESUME changes nothing and sends nothing, and JOIN_TIMER reports
\* isRunning = false and timeLeft = 0.
C25_TimerReset ==
  [][/\ last'.type = "TIMER_RESET" /\ ~last'.threw
           /\ last'.timerId \in DOMAIN tournaments[last'.hash].timers
        => LET timers == tournaments[last'.hash].timers
               t == last'.timerId
           IN /\ tournaments'[last'.hash].timers =
                   [timers EXCEPT ![t].isRunning = FALSE, ![t].startTime = 0,
                                  ![t].endTime = 0, ![t].pausedTime = 0]
              /\ out' = ToSubscribers(timers[t], "TIMER_RESET", [timerId |-> t])
     /\ \A ht \in AllTimers :
          /\ ~timerHistory[ht].started
          /\ last'.hash = ht[1] /\ last'.timerId = ht[2] /\ ~last'.threw
          => /\ last'.type = "TIMER_RESUME"
                  => /\ tournaments'[ht[1]].timers = tournaments[ht[1]].timers
                     /\ out' = {}
             /\ last'.type = "JOIN_TIMER"
                  => \E e \in out' :
                       /\ out' = {e} /\ e.to = last'.conn /\ e.type = "TIMER_SYNC"
                       /\ e.body.payload.isRunning = FALSE
                       /\ e.body.payload.timeLeft = 0]_vars

\* A timer that was started has just been reset while it ran, at a later time,
\* and its subscriber was told.
C25_Witness ==
  /\ last.type = "TIMER_RESET" /\ last.wasRunning
  /\ now > 0
  /\ TimerAt(last.hash, last.timerId).duration > 0
  /\ TimerAt(last.hash, last.timerId).endTime = 0
  /\ \E e \in out : e.type = "TIMER_RESET"

\* C26: a TIMER_RESUME that follows the pause of a running timer, with no other
\* command for that timer in between, sets endTime to the time of the resume
\* plus what was left at the pause (the old endTime minus the time of the
\* pause) and pausedTime to 0, so that as much time is left as at the pause.
C26_PauseResumeIdentity ==
  [][\A ht \in AllTimers :
       /\ last'.type = "TIMER_RESUME" /\ ~last'.threw
       /\ last'.hash = ht[1] /\ last'.timerId = ht[2]
       /\ timerHistory[ht].pause # NoPause
       => LET pause == timerHistory[ht].pause
              timer == tournaments'[ht[1]].timers[ht[2]]
          IN /\ timer.endTime = now + (pause.endTime - pause.t1)
             /\ timer.pausedTime = 0
             /\ TimeLeft(timer) = Max(0, pause.endTime - pause.t1)]_vars

\* C27: a timer that has been started and not reset since is either running or
\* paused with time left, and never both; the server of src/server.js has no
\* step that finishes a timer.
C27_StartedRunningOrPaused ==
  \A ht \in AllTimers :
    timerHistory[ht].started
    => (TimerAt(ht[1], ht[2]).isRunning # (TimerAt(ht[1], ht[2]).pausedTime > 0))

(***************************************************************************)
(* Claims about RECOMPUTE_TOURNAMENT and the broadcast (Spec)               *)
(***************************************************************************)
\* tournament.config after a recompute with this payload: of payload.config the
\* keys playerNames, forbiddenPairs and discouragedGroups replace the room's,
\* and every other key of the room's config stays.
RecomputedConfig(config, payload) ==
  LET taken == IF Has(payload, "config")
               THEN {"playerNames", "forbiddenPairs", "discouragedGroups"}
                      \cap DOMAIN payload.config
               ELSE {}
  IN [k \in DOMAIN config \cup taken |->
        IF k \in taken THEN payload.config[k] ELSE config[k]]

\* C28: a RECOMPUTE_TOURNAMENT whose handler runs to its end sets lastResults
\* to null, empties textFieldRefs and chomboRefs, takes from payload.config
\* playerNames, forbiddenPairs and discouragedGroups and no other key,
\* increments version by 1, sets isEmpty = false, leaves every other field of
\* the room and every other room alone, and sends TOURNAMENT_RECOMPUTED with the
\* payload and the new version to each member of the room.
C28_Recompute ==
  [][\A h \in DOMAIN tournaments :
       Accepted(h) /\ last'.type = "RECOMPUTE_TOURNAMENT"
       => LET old == tournaments[h]
              new == tournaments'[h]
              changed == {"lastResults", "textFieldRefs", "chomboRefs", "config",
                          "version", "isEmpty", "lastUpdated"}
          IN /\ new.lastResults = Null
             /\ new.textFieldRefs = EmptyObj
             /\ new.chomboRefs = EmptyObj
             /\ new.version = old.version + 1
             /\ new.isEmpty = FALSE
             /\ Rest(new, changed) = Rest(old, changed)
             /\ \A g \in DOMAIN tournaments \ {h} : tournaments'[g] = tournaments[g]
             /\ \E payload \in RecomputePayloads :
                  /\ new.config = RecomputedConfig(old.config, payload)
                  /\ out' = { Env(c, "TOURNAMENT_RECOMPUTED",
                                  [payload |-> payload, version |-> new.version,
                                   timestamp |-> now]) : c \in old.clients }]_vars

\* A recompute with new player names and other group numbers was just handled
\* in a room that had been edited: the names are the new ones, the group
\* numbers those of the creation.
C28_Witness ==
  /\ last.type = "RECOMPUTE_TOURNAMENT" /\ ~last.threw
  /\ last.hash \in DOMAIN tournaments
  /\ tournaments[last.hash].version >= 2
  /\ tournaments[last.hash].config.playerNames = NewNames
  /\ tournaments[last.hash].config.groups = 2
  /\ \E e \in out : e.type = "TOURNAMENT_RECOMPUTED"
                     /\ Has(e.body.payload, "config")
                     /\ e.body.payload.config.groups = 9

C29_UnknownIgnored ==
  [][last'.type \notin KnownTypes /\ last'.conn \in Conns /\ InRoom(last'.conn)
     => /\ out' = {}
        /\ \A h \in DOMAIN tournaments :
             Rest(tournaments'[h], {"lastUpdated"}) = Rest(tournaments[h], {"lastUpdated"})
        /\ DOMAIN tournaments' = DOMAIN tournaments
        /\ ws' = ws]_vars

\* A message of an unknown type was just handled, at a later time, in a room
\* that has been edited and has a timer with a subscriber.
C29_Witness ==
  /\ last.type \notin KnownTypes /\ last.conn \in Conns
  /\ last.hash \in DOMAIN tournaments
  /\ tournaments[last.hash].version > 0
  /\ tournaments[last.hash].lastUpdated > 0
  /\ \E t \in DOMAIN tournaments[last.hash].timers :
       tournaments[last.hash].timers[t].clients # {}
  /\ out = {}

(***************************************************************************)
(* Claims about the single-room server (SpecSingle)                         *)
(***************************************************************************)
\* C21: a RESTORE_FROM_LOCALSTORAGE that arrives while isEmpty is false leaves
\* version and every field of the state but lastUpdated as they are and sends
\* nothing; one that is honored while isEmpty is true sets version to the old
\* version + 1 and isEmpty to false, whatever the snapshot holds; and no step
\* of the server makes isEmpty true again, so at most one restore is honored.
C21_RestoreOnce ==
  [][/\ last'.type = "RESTORE_FROM_LOCALSTORAGE"
        => IF serverState.isEmpty
           THEN ~last'.threw => /\ serverState'.version = serverState.version + 1
                                /\ serverState'.isEmpty = FALSE
           ELSE /\ Rest(serverState', {"lastUpdated"}) = Rest(serverState, {"lastUpdated"})
                /\ out' = {}
     /\ ~serverState.isEmpty => ~serverState'.isEmpty]_vars

\* A restore was just refused, with sockets connected, after an earlier restore
\* of a snapshot without score fields had been honored.
C21_Witness ==
  /\ last.type = "RESTORE_FROM_LOCALSTORAGE" /\ ~last.threw
  /\ out = {}
  /\ Senders # {}
  /\ ~serverState.isEmpty
  /\ serverState.version >= 1
  /\ ~Has(serverState, "textFieldRefs")

(***************************************************************************)
(* Claims about the reconnecting client (SpecReconnect)                     *)
(***************************************************************************)
\* C22: when the socket made by a reconnect attempt opens, and the page had
\* joined a room on its previous socket, reconnectAttempts is 0 afterwards and
\* JOIN_TOURNAMENT for that same room has been sent on the new socket.
C22_RejoinOnReconnect ==
  [][\A c \in Conns :
       /\ last'.type = "onopen" /\ last'.conn = c
       /\ wsClient[c].isReconnecting
       /\ wsClient[c].joined # NoHash
       => /\ wsClient'[c].reconnectAttempts = 0
          /\ \E i \in DOMAIN wsClient'[c].sent :
               wsClient'[c].sent[i] = Msg("JOIN_TOURNAMENT", [hash |-> wsClient[c].joined])]_vars

\* C23: a client whose socket is closed has a reconnect attempt pending, the
\* k-th scheduled reconnectDelay x 2^(k-1) ms ahead, or shows the
\* connection-lost state; it is never closed with neither.
C23_NeverStranded ==
  \A c \in Conns :
    /\ wsClient[c].timeout # NoTimeout
         => wsClient[c].timeout = reconnectDelay * MathPow2(wsClient[c].reconnectAttempts - 1)
    /\ wsClient[c].readyState = "CLOSED"
         => wsClient[c].timeout # NoTimeout \/ wsClient[c].connectionLost

(***************************************************************************)
(* Claims about the sync guards of the page (SpecSync)                      *)
(***************************************************************************)
\* The edits made so far on all pages, and the UPDATE_TEXT_FIELD messages on
\* their way to the server.
EditsMade == Cardinality({ p \in Conns \X (1..MaxEdits) : p[2] <= cli[p[1]].edits })
UpdatesInFlight ==
  Cardinality(UNION { { <<c, i>> : i \in { j \in DOMAIN c2s[c] :
                                            c2s[c][j].type = "UPDATE_TEXT_FIELD" } }
                      : c \in Conns })
RoomVersion(T) == IF "abc" \in DOMAIN T THEN T["abc"].version ELSE 0

Handled(c) == last'.type = "CLIENT" /\ s2c'[c] # s2c[c]

\* C32: a local edit on a page whose hasReceivedInitialState is false sends
\* nothing; and once a page has handled a FULL_STATE, of an empty room or not,
\* hasReceivedInitialState is true and syncStateToServer lets its edits through.
C32_SentAfterFullState ==
  [][\A c \in Conns :
       /\ cli'[c].edits = cli[c].edits + 1 /\ ~cli[c].hasReceivedInitialState
            => c2s' = c2s
       /\ Handled(c) /\ Head(s2c[c]).type = "FULL_STATE"
            => cli'[c].hasReceivedInitialState /\ WillSync(c)']_vars

\* C40: after a page has handled an inbound message, isSyncingFromServer is
\* false again.
C40_GuardReleased ==
  [][\A c \in Conns : Handled(c) => ~cli'[c].isSyncingFromServer]_vars

(***************************************************************************)
(* Claims about the CountdownServer (SpecCountdown)                         *)
(***************************************************************************)
\* C33: once timer_finished has been broadcast, and until a start or a reset
\* acts, the timer is not running and has no paused time left, a resume
\* changes nothing and broadcasts nothing, and the timer_sync sent to a client
\* that connects reports timeLeft 0.
C33_FinishedIsIdle ==
  [][/\ countdown'.finished =>
          ~countdown'.timerState.isRunning /\ countdown'.timerState.pausedTime = 0
     /\ countdown.finished /\ last'.type = "resume" =>
          countdown'.timerState = countdown.timerState /\ countdown'.said = ""
     /\ countdown.finished /\ last'.type = "connection" =>
          \A e \in out' : e.type = "timer_sync" /\ e.body.timeLeft = 0]_vars

\* C34: timer_finished is broadcast only by the expiry check, only when the
\* timer was running and its endTime had been reached, and the timer is not
\* running afterwards; a timer that is paused or reset has no check scheduled;
\* and timer_finished is broadcast at most once after each timer_started.
C34_FinishedOnlyWhenDue ==
  [][/\ countdown' # countdown /\ countdown'.said = "timer_finished" =>
          /\ last'.type = "check"
          /\ countdown.timerState.isRunning
          /\ now >= countdown.timerState.endTime
          /\ ~countdown'.timerState.isRunning
     /\ ~countdown'.timerState.isRunning => ~countdown'.timerInterval
     /\ countdown'.finishes <= 1]_vars

\* A timer that was paused and resumed has finished, with a client connected.
C34_Witness ==
  /\ countdown.said = "timer_finished"
  /\ countdown.finishes = 1
  /\ countdown.timerState.pausedTime > 0
  /\ countdown.timerState.endTime <= now
  /\ countdown.clients # {}

(***************************************************************************)
(* Claims about several rooms (SpecRooms, SpecConn)                         *)
(***************************************************************************)
\* The sockets in the clients set of room h or of one of its timers.
Subscribers(h) ==
  IF h \in DOMAIN tournaments
  THEN tournaments[h].clients
         \cup UNION { tournaments[h].timers[t].clients : t \in DOMAIN tournaments[h].timers }
  ELSE {}

\* C35: a mutating or timer message handled on a socket bound to room A leaves
\* every other room as it was (fields, version, timers, subscriber sets), and
\* sends nothing to another socket that is in no clients set of A or of A's
\* timers, also when another room has a timer of the same id.
C35_RoomsIndependent ==
  [][last'.type \in MutatingTypes \cup TimerTypes =>
       LET c == last'.conn
           A == ws[c].tournamentHash IN
       /\ DOMAIN tournaments' = DOMAIN tournaments
       /\ \A B \in DOMAIN tournaments \ {A} : tournaments'[B] = tournaments[B]
       /\ \A d \in Conns \ {c} : d \notin Subscribers(A) => d \notin Recipients]_vars

\* TIMER_START has been handled for room "abc" and has gone to a subscriber,
\* while a socket that is subscribed only to the timer of the same id of room
\* "xyz" has received nothing.
C35_Witness ==
  /\ last.type = "TIMER_START" /\ last.hash = "abc" /\ ~last.threw
  /\ out # {}
  /\ "xyz" \in DOMAIN tournaments
  /\ "tournament" \in DOMAIN tournaments["xyz"].timers
  /\ \E d \in tournaments["xyz"].timers["tournament"].clients :
       /\ d \notin Subscribers("abc")
       /\ \A e \in out : e.to # d

\* The last step handled a mutating message that room h accepted.
AcceptedBy(h) == last.type \in MutatingTypes /\ last.hash = h /\ ~last.threw

\* C36: a socket is in the clients set of no room other than the one its
\* tournamentHash names, and the broadcast of an accepted mutation goes only to
\* sockets whose tournamentHash names the mutated room.
C36_MemberOfBoundRoomOnly ==
  /\ \A c \in Conns : RoomsOf(c) \subseteq {ws[c].tournamentHash}
  /\ \A h \in DOMAIN tournaments :
       AcceptedBy(h) => \A e \in out : ws[e.to].tournamentHash = h

\* C37: the socket that sent an accepted mutation is in the clients set of the
\* room it mutated, and is among the sockets the broadcast goes to.
C37_SenderIsMember ==
  \A h \in DOMAIN tournaments :
    AcceptedBy(h) =>
      /\ last.conn \in tournaments[h].clients
      /\ \E e \in out : e.to = last.conn

\* C38: a room is created with isEmpty true and version 0; every accepted
\* mutating message leaves isEmpty false, also when its payload names isEmpty;
\* every other step (joins, timer commands, messages that are rejected or
\* throw) leaves isEmpty as it was; isEmpty never goes from false to true; and
\* version is 0 whenever isEmpty is true.
C38_EmptyUntilFirstMutation ==
  [][\A h \in DOMAIN tournaments' :
       IF h \notin DOMAIN tournaments
       THEN tournaments'[h].isEmpty /\ tournaments'[h].version = 0
       ELSE /\ Accepted(h) => ~tournaments'[h].isEmpty
            /\ ~Accepted(h) => tournaments'[h].isEmpty = tournaments[h].isEmpty
            /\ ~tournaments[h].isEmpty => ~tournaments'[h].isEmpty
            /\ tournaments'[h].isEmpty => tournaments'[h].version = 0]_vars

\* After an edit, an UPDATE_CONFIG whose payload holds isEmpty: true was
\* accepted and broadcast; the room is not empty and its timer is running.
C38_Witness ==
  /\ last.type = "UPDATE_CONFIG" /\ last.hash \in DOMAIN tournaments
  /\ \E e \in out : /\ e.type = "CONFIG_UPDATED"
                    /\ Has(e.body.payload, "isEmpty")
                    /\ e.body.payload.isEmpty
  /\ ~tournaments[last.hash].isEmpty
  /\ tournaments[last.hash].version = 2
  /\ "tournament" \in DOMAIN tournaments[last.hash].timers
  /\ tournaments[last.hash].timers["tournament"].isRunning
  /\ Get(tournaments[last.hash].textFieldRefs, "round-0-table-0-person-1") = 25000

(***************************************************************************)
(* Claims about UPDATE_CONFIG (Spec)                                        *)
(***************************************************************************)
\* What an UPDATE_CONFIG may write: the scoring knobs and the bookkeeping.
ConfigWrites == {"oka", "uma1", "uma2", "uma3", "uma4", "startingPoints", "chomboValue",
                 "version", "isEmpty", "lastUpdated"}

\* C39: an accepted UPDATE_CONFIG adds no field to the room and changes none
\* besides the scoring knobs, version, isEmpty and lastUpdated: clients,
\* timers, config, textFieldRefs, chomboRefs and lastResults stay as they were.
C39_ConfigFrame ==
  [][\A h \in DOMAIN tournaments :
       Accepted(h) /\ last'.type = "UPDATE_CONFIG" =>
         /\ DOMAIN tournaments'[h] = DOMAIN tournaments[h]
         /\ \A k \in DOMAIN tournaments[h] \ ConfigWrites :
              tournaments'[h][k] = tournaments[h][k]]_vars

====
